---- MODULE Spec2Model ----
(***************************************************************************)
(* The event loop of oxen-libquic: Loop (job queue, call_soon / call /     *)
(* call_get, process_job_queue) and Ticker (start / stop / init_event).    *)
(* One worker thread runs the reactor; application threads submit work.    *)
(***************************************************************************)
EXTENDS Integers, Sequences, FiniteSets, TLC

\* Bounds: the number of jobs ever handed to call_soon in one behaviour, where
\* only the job queue runs (MaxJobs) and where a Ticker runs beside it
\* (MaxTickerJobs).
MaxJobs == 3
MaxTickerJobs == 1
\* how often the function of a weak-bound Ticker is let run
MaxWeakRuns == 2
\* how far the clock runs, and the longest delay given to call_later
MaxTime == 2
\* how many call_later calls a behaviour has
MaxLaterJobs == 2
\* how many jobs a behaviour with a shutdown has
MaxShutJobs == 2
MaxDelay == 1
\* how many Networks a behaviour has constructed by its end
MaxNets == 2
\* how many commands a BTRequestStream sends, and how many callbacks of the
\* BTRequestStreams a behaviour has
MaxReqs == 2
MaxLog == 2
\* how many timeout sweeps a BTRequestStream runs
MaxSweeps == 2
\* how many bytes a BTRequestStream is given in one behaviour
MaxStream == 6
\* MAX_REQ_LEN and MAX_REQ_LEN_ENCODED, scaled down: the largest message, and
\* the size at which a length prefix without ':' is given up
MAX_REQ_LEN == 2
MAX_REQ_LEN_ENCODED == 2

Worker == "loop"
AppThreads == {"app1", "app2"}

NoJob == [id |-> 0, kind |-> "none", by |-> "none"]
NoVal == [st |-> "none", v |-> 0]
Empty == [st |-> "empty", v |-> 0]
Exc == [st |-> "exc", v |-> 0]
Val(n) == [st |-> "val", v |-> n]

\* Job bodies handed to call_soon by the application.
SoonKinds == {"inc", "throw", "spawn"}
GetKinds == {"get", "getthrow"}

VARIABLES
    alive,          \* the worker thread (and with it the process) is running
    loop_thread_id, \* Loop::loop_thread_id
    job_queue,      \* Loop::job_queue
    swapped_queue,  \* the local swapped_queue of process_job_queue
    job_waker,      \* job_waker is active (event_active was called, callback not yet run)
    wpc,            \* where the worker is: "poll", "drain", "job", "tick", "hook"
    cur,            \* the job the worker is running
    tpc,            \* where each application thread is
    prom,           \* the std::promise of each thread's call_get
    next_id,        \* ids are given in the order jobs enter job_queue
    job_budget,     \* how many jobs the application submits in this behaviour
    counter,        \* the application's counter, incremented by jobs
    done,           \* history: the jobs run, in the order they were run
    dropped,        \* history: ids of jobs taken off the queue and never invoked
    escaped,        \* history: the jobs whose exception left process_job_queue
    cb_threads,     \* history: threads on which a callback has been executed
    fruns,          \* history: how often the f of each thread's call_get was invoked
    fval,           \* history: what the f of each thread's call_get returned
    got,            \* history: what call_get returned to each thread
    hooks,          \* history: the call_later hooks invoked: whose, when, from a job or a timer
    oneshots,       \* the one-off Tickers of add_oneshot_event whose timer is armed
    tk,             \* the Ticker made by call_every: _is_running, ev (pending), f
    tbody,          \* what the running Ticker callback's function does
    tret,           \* history: the last start()/stop() call and what it returned
    tprev,          \* history: the start()/stop() call before that
    last_ok,        \* history: the last start()/stop() call that returned true
    si,             \* history: the start_immediately given to call_every
    fi,             \* history: the fixed_interval given to call_every
    wk,             \* the Ticker of a weak-bound call_every
    owner,          \* the application holds the owner of the weak-bound call_every
    wbody,          \* what the running weak-bound callback found: "run", "release"
    drop_fires,     \* history: fires of the weak-bound Ticker begun after the drop
    late_f,         \* history: the f of the weak-bound Ticker ran at such a fire
    wruns,          \* history: how often the f of the weak-bound Ticker ran
    now,            \* the time, get_time(), in microseconds
    target_time,    \* the target_time held by the lambda of each off-thread call_later
    cur_hook,       \* the call_later whose hook a one-off Ticker is running
    event_break,    \* event_base_loopbreak was called on the reactor
    event_gotterm,  \* event_base_loopexit was called on the reactor
    loop_dead,      \* ~Loop has run
    exit_id,        \* history: next_id when the worker left the reactor
    at_stop,        \* history: the stop asked for, and the jobs queued and not yet run then
    net,            \* the Networks: alive, net_id, and which construction made it
    next_net_id,    \* Network::next_net_id
    net_made,       \* how many Networks have been constructed
    app_holds,      \* the application holds a std::shared_ptr<Loop> of its own
    ntk,            \* the Ticker made through each Network's call_every, with its caller id
    dt,             \* the Network that each thread is destroying, and its shutdown_immediate
    rx,             \* history: every byte given to BTRequestStream::receive so far
    bt,             \* BTRequestStream's parser: current_len, size_buf, buf, is_closing, delivered
    bts,            \* each BTRequestStream: sent_reqs, next_rid, func_map, is_closing
    wire,           \* the encoded messages under way to each BTRequestStream
    held,           \* the commands that each side's handlers hold and have not answered
    blog,           \* history: callbacks invoked and messages sent by the BTRequestStreams
    objs,           \* message objects: their data, views and fields
    rng             \* an ipv4_range: the address and mask given, ip, and what was asked of it

loopVars == <<alive, loop_thread_id, job_queue, swapped_queue, job_waker, wpc, cur,
              tpc, prom, next_id, job_budget, counter>>
histVars == <<done, dropped, escaped, cb_threads, fruns, fval, got, hooks>>
tickVars == <<tk, tbody, tret, tprev, last_ok, si, fi, oneshots>>
weakVars == <<wk, owner, wbody, drop_fires, late_f, wruns>>
timeVars == <<now, target_time, cur_hook>>
stopVars == <<event_break, event_gotterm, loop_dead, exit_id, at_stop>>
netVars == <<net, next_net_id, net_made, app_holds, ntk, dt>>
btVars == <<rx, bt, bts, wire, held, blog, objs>>
ipVars == <<rng>>
extVars == <<weakVars, timeVars, stopVars, netVars, btVars, ipVars>>
vars == <<loopVars, histVars, tickVars, extVars>>

----------------------------------------------------------------------------
(* Loop: pure parts *)

\* bool in_event_loop() const
in_event_loop_other(t) == t # loop_thread_id
in_event_loop(t) == t = loop_thread_id

\* call_soon, under job_queue_mutex: job_queue.emplace(std::move(f))
call_soon_emplace_front(q, j) == <<j>> \o q
call_soon_emplace(q, j) == Append(q, j)

\* process_job_queue: job = swapped_queue.front(); swapped_queue.pop();
take_back(q) == [job |-> q[Len(q)], rest |-> SubSeq(q, 1, Len(q) - 1)]
take(q) == [job |-> Head(q), rest |-> Tail(q)]

\* call_get: the lambda given to call_soon. try { prom.set_value(f()) }
\* catch (...) { prom.set_exception(...) }: nothing leaves the lambda.
get_lambda_nocatch(throws, v) ==
    IF throws THEN [prom |-> Empty, escapes |-> TRUE]
    ELSE [prom |-> Val(v), escapes |-> FALSE]
get_lambda(throws, v) ==
    IF throws THEN [prom |-> Exc, escapes |-> FALSE]
    ELSE [prom |-> Val(v), escapes |-> FALSE]

\* call_get: fut.get() returns once the promise holds a value or an exception
future_ready_always(p) == TRUE
future_ready(p) == p.st \in {"val", "exc"}

NewJob(k, t) == [id |-> next_id, kind |-> k, by |-> t]

Ids(q) == {q[i].id : i \in 1..Len(q)}
\* the job that process_job_queue has taken and is running
Running == IF wpc = "job" THEN <<cur>> ELSE << >>

----------------------------------------------------------------------------
(* Ticker: pure parts. event_add and event_del are taken to succeed. *)

\* made: the Ticker exists; is_running: _is_running; pending: ev is in the
\* reactor's timer heap; f: the callback is set
NoTicker == [made |-> FALSE, is_running |-> FALSE, pending |-> FALSE, f |-> FALSE]
NoCall == [op |-> "none", r |-> FALSE, was |-> FALSE]
TickBodies == {"plain", "stop", "throw"}

\* bool Ticker::start()
start_unguarded(k) ==
    [tk |-> [k EXCEPT !.pending = TRUE, !.is_running = TRUE], r |-> TRUE]
start(k) ==
    IF k.is_running
    THEN [tk |-> k, r |-> FALSE]
    ELSE [tk |-> [k EXCEPT !.pending = TRUE, !.is_running = TRUE], r |-> TRUE]

\* bool Ticker::stop()
stop(k) ==
    IF ~k.is_running
    THEN [tk |-> k, r |-> FALSE]
    ELSE [tk |-> [k EXCEPT !.pending = FALSE, !.is_running = FALSE], r |-> TRUE]

\* void Ticker::init_event(_loop, _t, task, one_off): the definition takes these
\* four; the start_immediately and fixed_interval that _call_every passes on
\* are not among them, and only a one-off event is started.
init_event(k, one_off, start_immediately, fixed_interval) ==
    LET k1 == [k EXCEPT !.made = TRUE, !.f = TRUE]
    IN IF one_off THEN start(k1).tk ELSE k1

\* Loop::call_every -> Loop::_call_every(interval, f, loop_id, start_immediately,
\* fixed_interval): make_handler, then init_event(..., false, start_immediately,
\* fixed_interval)
call_every(start_immediately, fixed_interval) ==
    init_event(NoTicker, FALSE, start_immediately, fixed_interval)

\* The periodic f that init_event builds: func(); event_del(ev); event_add(ev).
\* An exception of func() skips the two calls.
periodic_f(k, body) ==
    LET k1 == IF body = "stop" THEN stop(k).tk ELSE k
    IN IF body = "throw" THEN k1 ELSE [k1 EXCEPT !.pending = TRUE]

\* Loop::add_oneshot_event(delay, hook): a Ticker of its own, init_event with
\* one_off = true, which starts it: the timer is due delay after the present
add_oneshot_event(os, id, delay, n) ==
    IF init_event(NoTicker, TRUE, TRUE, FALSE).pending
    THEN os \cup {[id |-> id, due |-> n + delay]}
    ELSE os

\* call_later, in the lambda: if (now >= target_time) func();
call_later_due_always(n, target) == TRUE
call_later_due(n, target) == n >= target

\* call_later, in the lambda: duration_cast<microseconds>(target_time - now)
residual(target, n) == target - n

\* the target_time that the lambda of call_later number id holds
Target(id) == (CHOOSE r \in target_time : r.id = id).t

Called(op, res, k) == [op |-> op, r |-> res.r, was |-> k.is_running]

----------------------------------------------------------------------------
(* Stopping the worker, Network: pure parts *)

\* using caller_id_t = uint16_t
CallerIdMod == 65536
\* static constexpr caller_id_t loop_id{0}
loop_id == 0

NetSlots == {"n1", "n2"}
NoNet == [alive |-> FALSE, id |-> 0, ser |-> 0]
NoNetTicker == [made |-> FALSE, is_running |-> FALSE, pending |-> FALSE, f |-> FALSE,
                tag |-> 0, ser |-> 0, held |-> FALSE]
NoDtor == [n |-> "none", imm |-> FALSE]
NoStop == [req |-> "none", ids |-> {}]
Requested(immediate, ids) ==
    [req |-> IF immediate THEN "immediate" ELSE "graceful", ids |-> ids]

\* net_id{++next_net_id}, in caller_id_t
next_net(id) == (id + 1) % CallerIdMod

\* Loop::stop_thread(immediate): event_base_loopbreak or event_base_loopexit
stop_thread_break(immediate) == "break"
stop_thread(immediate) == IF immediate THEN "break" ELSE "exit"

\* ~Network: if (_loop.use_count() == 1)
last_holder_always(c) == TRUE
last_holder(c) == c = 1

\* tick->f = nullptr; tick->stop();
cancel_keep_running(k) == [k EXCEPT !.f = FALSE]
cancel(k) == stop([k EXCEPT !.f = FALSE]).tk

\* Loop::stop_tickers(id): every live Ticker in tickers[id]
stop_tickers(reg, id) ==
    [h \in DOMAIN reg |-> IF reg[h].made /\ reg[h].tag = id THEN cancel(reg[h]) ELSE reg[h]]

\* ~Loop and Loop::shutdown: every live Ticker of every id
stop_all_tickers(reg) ==
    [h \in DOMAIN reg |-> IF reg[h].made THEN cancel(reg[h]) ELSE reg[h]]

\* void Ticker::start_event(_loop, _interval, task, persist, start_immediately),
\* the Ticker of the revision that has the weak-bound call_every
start_event(k, persist, start_immediately) ==
    LET k1 == [k EXCEPT !.made = TRUE, !.f = TRUE]
    IN IF start_immediately THEN start(k1).tk ELSE k1

\* The lambda of the weak-bound call_every:
\* if (auto ptr = owner.lock()) func(); else hndlr.reset();
weak_f_nocheck(upgradable) == "run"
weak_f(upgradable) == IF upgradable THEN "run" ELSE "release"

\* hndlr.reset() drops the last handle: ~Ticker frees the event and clears f
Ticker_destroy(k) == NoTicker

----------------------------------------------------------------------------
(* BTRequestStream: the incremental parser, pure parts. A byte is a digit, *)
(* the colon, or any other byte.                                           *)

Digits == {"0", "1", "2"}
Bytes == Digits \cup {":", "x"}
DigitVal(c) == CASE c = "0" -> 0 [] c = "1" -> 1 [] OTHER -> 2

Take(q, n) == SubSeq(q, 1, IF n < Len(q) THEN n ELSE Len(q))
Drop(q, n) == SubSeq(q, n + 1, Len(q))

\* req.find_first_of(':'), counted from 1; 0 is npos
find_first_of(req) ==
    IF \E i \in 1..Len(req) : req[i] = ":"
    THEN CHOOSE i \in 1..Len(req) : req[i] = ":" /\ \A j \in 1..(i - 1) : req[j] # ":"
    ELSE 0

\* std::from_chars(first, last, value): the digits at the front, as far as they
\* go; an error if there is none. What follows the digits is not looked at.
RECURSIVE DecVal(_)
DecVal(d) == IF d = << >> THEN 0 ELSE 10 * DecVal(Take(d, Len(d) - 1)) + DigitVal(d[Len(d)])
LeadDigits(q) ==
    IF \E i \in 1..Len(q) : q[i] \notin Digits
    THEN (CHOOSE i \in 1..Len(q) : q[i] \notin Digits /\ \A j \in 1..(i - 1) : q[j] \in Digits) - 1
    ELSE Len(q)
from_chars(q) ==
    [ok |-> LeadDigits(q) > 0, v |-> DecVal(Take(q, LeadDigits(q)))]

\* size_t BTRequestStream::parse_length(req): consumed = 0 for an incomplete
\* length; throws for a prefix that is given up or invalid
parse_length(req) ==
    LET pos == find_first_of(req)
        fc == from_chars(Take(req, pos - 1))
    IN IF pos = 0
       THEN [throws |-> Len(req) >= MAX_REQ_LEN_ENCODED, consumed |-> 0, len |-> 0]
       ELSE [throws |-> ~fc.ok \/ fc.v = 0 \/ fc.v > MAX_REQ_LEN, consumed |-> pos, len |-> fc.v]

\* the parser's members; delivered: the buffers handed to handle_input
BtInit == [current_len |-> 0, size_buf |-> << >>, buf |-> << >>, closing |-> FALSE,
           delivered |-> << >>]
\* what receive's catch leaves: close(BPARSER_ERROR_EXCEPTION)
Thrown(st) == [st EXCEPT !.closing = TRUE]

\* size_t need = current_len - buf.size(): how much of req completes the
\* request
need_all(s1, r1) == Len(r1)
need_of(s1, r1) == s1.current_len - Len(s1.buf)

\* void BTRequestStream::process_incoming(req)
RECURSIVE process_incoming(_, _)
process_incoming(st, req) ==
    LET body(s1, r1) ==
            IF Len(r1) + Len(s1.buf) >= s1.current_len
            THEN LET need == need_of(s1, r1)
                 IN process_incoming(
                        [s1 EXCEPT !.delivered = Append(@, s1.buf \o Take(r1, need)),
                                   !.buf = << >>, !.current_len = 0],
                        Drop(r1, need))
            ELSE [s1 EXCEPT !.buf = @ \o r1]
    IN IF req = << >> THEN st
       ELSE IF st.current_len # 0 THEN body(st, req)
       ELSE IF st.size_buf # << >>
       THEN LET prev_len == Len(st.size_buf)
                sb == st.size_buf \o Take(req, MAX_REQ_LEN_ENCODED)
                pl == parse_length(sb)
            IN IF pl.throws THEN Thrown([st EXCEPT !.size_buf = sb])
               ELSE IF pl.consumed = 0 THEN [st EXCEPT !.size_buf = sb]
               ELSE body([st EXCEPT !.size_buf = << >>, !.current_len = pl.len],
                         Drop(req, pl.consumed - prev_len))
       ELSE LET pl == parse_length(req)
            IN IF pl.throws THEN Thrown(st)
               ELSE IF pl.consumed = 0 THEN [st EXCEPT !.size_buf = @ \o req]
               ELSE body([st EXCEPT !.current_len = pl.len], Drop(req, pl.consumed))

\* void BTRequestStream::receive(data)
receive(st, data) == IF st.closing THEN st ELSE process_incoming(st, data)

\* receive, given the bytes one at a time
RECURSIVE receive_bytes(_, _)
receive_bytes(st, data) ==
    IF data = << >> THEN st ELSE receive_bytes(receive(st, Take(data, 1)), Drop(data, 1))

\* what the user of the stream sees of the parser
Outcome(st) == [delivered |-> st.delivered, closed |-> st.closing]

(* BTRequestStream: requests, handlers and messages, pure parts *)

\* the two ends of the QUIC stream, each a BTRequestStream
Sides == {"a", "b"}
Peer(s) == IF s = "a" THEN "b" ELSE "a"
NoStream == [sent_reqs |-> << >>, next_rid |-> 0, func_map |-> {}, closing |-> FALSE,
             closed_cb |-> 0, sweeps |-> 0]

\* A bencoded list, as oxenc::bt_list_producer makes it and bt_list_consumer
\* reads it: its elements in order, each a string or an integer
StrEl(x) == [t |-> "s", s |-> x, i |-> 0]
IntEl(n) == [t |-> "i", s |-> "", i |-> n]

\* BTRequestStream::encode_command(endpoint, rid, body)
encode_command(endpoint, rid, body) == <<StrEl("C"), IntEl(rid), StrEl(endpoint), StrEl(body)>>
\* BTRequestStream::encode_response(rid, body, error)
encode_response_body_first(rid, body, error) ==
    <<StrEl(IF error THEN "E" ELSE "R"), StrEl(body), IntEl(rid)>>
encode_response(rid, body, error) ==
    <<StrEl(IF error THEN "E" ELSE "R"), IntEl(rid), StrEl(body)>>

\* A std::string_view into the data of the message that owns the buffer buf:
\* where it begins and how many elements it spans
NullView == [buf |-> "null", off |-> 0, len |-> 0]
View(b, o) == [buf |-> b, off |-> o, len |-> 1]

MsgSlots == {"m1", "m2"}
NoMsg == [made |-> FALSE, buf |-> "null", data |-> << >>, req_type |-> NullView,
          ep |-> NullView, req_body |-> NullView, req_id |-> 0, timed_out |-> FALSE,
          throws |-> FALSE, from |-> "none"]

\* message::message(bp, req, is_error): consume_string_view, consume_integer,
\* for a "C" consume_string_view, consume_string_view. A consume of an element
\* that is missing or of the other kind throws.
IsStr(raw, k) == k <= Len(raw) /\ raw[k].t = "s"
IsInt(raw, k) == k <= Len(raw) /\ raw[k].t = "i"
message(raw, is_error, b) ==
    LET c == IsStr(raw, 1) /\ raw[1].s = "C"
        ok == /\ IsStr(raw, 1) /\ IsInt(raw, 2)
              /\ IF c THEN IsStr(raw, 3) /\ IsStr(raw, 4) ELSE IsStr(raw, 3)
    IN IF ~ok THEN [NoMsg EXCEPT !.throws = TRUE]
       ELSE [made |-> TRUE, buf |-> b, data |-> raw,
             req_type |-> View(b, 1),
             ep |-> IF c THEN View(b, 3) ELSE NullView,
             req_body |-> View(b, IF c THEN 4 ELSE 3),
             req_id |-> raw[2].i, timed_out |-> is_error, throws |-> FALSE,
             from |-> "none"]

\* what a view of message m shows: the string it spans in m's data, nothing
\* for an empty view, and no string of m if it points into another buffer
Shown(m, v) ==
    IF v.len = 0 THEN ""
    ELSE IF v.buf = m.buf /\ v.off \in 1..Len(m.data) THEN m.data[v.off].s
    ELSE "dangling"
\* message::type(), endpoint(), body(), rid()
Seen(m) == [req_id |-> m.req_id, type |-> Shown(m, m.req_type), ep |-> Shown(m, m.ep),
            body |-> Shown(m, m.req_body)]

\* get_sv_pos(source, view) and fixup_view(new_source, new_view, off_len)
get_sv_pos(view) == [off |-> view.off, len |-> view.len]
fixup_view(b, view, pos) ==
    IF pos.len = 0 THEN NullView ELSE [buf |-> b, off |-> pos.off, len |-> pos.len]

\* message::operator=(const message&) and operator=(message&&) on the message
\* dst whose buffer is b: req_id, return_sender, cid, data and the three views
\* are assigned; timed_out is not among them
message_assign(dst, b, m) ==
    [dst EXCEPT !.made = TRUE, !.buf = b, !.data = m.data, !.req_id = m.req_id,
                !.req_type = fixup_view(b, m.req_type, get_sv_pos(m.req_type)),
                !.ep = fixup_view(b, m.ep, get_sv_pos(m.ep)),
                !.req_body = fixup_view(b, m.req_body, get_sv_pos(m.req_body))]

\* message::message(const message&) and message(message&&): *this = m, on a
\* message whose members are as their default initialisation leaves them
message_copy(b, m, dflt) == message_assign([NoMsg EXCEPT !.timed_out = dflt], b, m)

\* the endpoint names and bodies that are used
Eps == {"", "ep"}
Bodies == {"b1", "b2"}

\* sent_request: req_id, data (the encoded command), and when it expires;
\* NoExpiry for a request without a deadline
NoExpiry == -1
sent_request(rid, data, n, timeout) ==
    [req_id |-> rid, data |-> data,
     expiry |-> IF timeout = NoExpiry THEN NoExpiry ELSE n + timeout]
\* sent_request::is_expired(now)
is_expired(r, n) == r.expiry # NoExpiry /\ r.expiry < n
\* sent_request::to_timeout(): the request's own data as a message, timed out
to_timeout(r) == message(r.data, TRUE, "q")

\* std::lower_bound(sent_reqs.begin(), sent_reqs.end(), rid, sr->req_id < rid):
\* the first place whose req_id is not below rid, Len + 1 for end()
lower_bound(reqs, rid) ==
    IF \E i \in 1..Len(reqs) : reqs[i].req_id >= rid
    THEN CHOOSE i \in 1..Len(reqs) :
             reqs[i].req_id >= rid /\ \A j \in 1..(i - 1) : reqs[j].req_id < rid
    ELSE Len(reqs) + 1
Erase(q, i) == SubSeq(q, 1, i - 1) \o SubSeq(q, i + 1, Len(q))

\* func_map.find(msg.endpoint_str()) != func_map.end()
find_handler_any(fm, name) == TRUE
find_handler(fm, name) == name \in fm

\* a callback invoked with a message: that of the in-flight request entry
\* ("reply", "timeout"), or the handler of an endpoint ("handler")
Event(s, kind, entry, m) == [side |-> s, kind |-> kind, entry |-> entry, msg |-> Seen(m)]

\* void BTRequestStream::handle_input(message msg): the requests left, and the
\* callbacks invoked
handle_input(s, st, msg) ==
    LET itr == lower_bound(st.sent_reqs, msg.req_id)
        m == message_copy("q", msg, FALSE)
    IN IF Shown(msg, msg.req_type) \in {"R", "E"} /\ itr # Len(st.sent_reqs) + 1
       THEN [st |-> [st EXCEPT !.sent_reqs = Erase(@, itr)],
             events |-> <<Event(s, "reply", st.sent_reqs[itr].req_id, m)>>]
       ELSE IF find_handler(st.func_map, Shown(msg, msg.ep))
       THEN [st |-> st, events |-> <<Event(s, "handler", -1, m)>>]
       ELSE [st |-> st, events |-> << >>]

\* void BTRequestStream::check_timeouts(), on a list that is not empty: the
\* requests left and the requests whose cb was given to_timeout()
RECURSIVE check_timeouts_back(_, _)
check_timeouts_back(reqs, n) ==
    IF reqs # << >> /\ is_expired(reqs[Len(reqs)], n)
    THEN LET r == check_timeouts_back(SubSeq(reqs, 1, Len(reqs) - 1), n)
         IN [rest |-> r.rest, popped |-> <<reqs[Len(reqs)]>> \o r.popped]
    ELSE [rest |-> reqs, popped |-> << >>]
RECURSIVE check_timeouts(_, _)
check_timeouts(reqs, n) ==
    IF reqs # << >> /\ is_expired(Head(reqs), n)
    THEN LET r == check_timeouts(Tail(reqs), n)
         IN [rest |-> r.rest, popped |-> <<Head(reqs)>> \o r.popped]
    ELSE [rest |-> reqs, popped |-> << >>]


----------------------------------------------------------------------------
(* ipv4, detail::masked_ipv4 and ipv4_range *)

\* uint32_t addr, in host order: its bits, the least significant first
AddrBits == 32
BitIdx == 0..(AddrBits - 1)
Zero32 == [i \in BitIdx |-> 0]
One32 == [i \in BitIdx |-> IF i = 0 THEN 1 ELSE 0]

\* ipv4(a, b, c, d): uint32_t{a} << 24 | uint32_t{b} << 16 | uint32_t{c} << 8 | uint32_t{d}
ipv4(a, b, c, d) == [i \in BitIdx |-> (<<d, c, b, a>>[(i \div 8) + 1] \div (2 ^ (i % 8))) % 2]

\* x >> n and x << n on a uint32_t. A count of 32 is not less than the width
\* of the type, and the result is then whatever the build makes of it: every
\* bit shifted out, or the count taken modulo the width as x86 and AArch64 do.
ShiftOutcomes == {"zero", "masked"}
shr(x, n, ub) ==
    IF n >= AddrBits /\ ub = "zero" THEN Zero32
    ELSE [i \in BitIdx |-> IF i + (n % AddrBits) < AddrBits THEN x[i + (n % AddrBits)] ELSE 0]
shl(x, n, ub) ==
    IF n >= AddrBits /\ ub = "zero" THEN Zero32
    ELSE [i \in BitIdx |-> IF i - (n % AddrBits) >= 0 THEN x[i - (n % AddrBits)] ELSE 0]
\* x | y, and x - 1 on a uint32_t
bit_or(x, y) == [i \in BitIdx |-> IF x[i] = 1 \/ y[i] = 1 THEN 1 ELSE 0]
minus_one(x) ==
    IF x = Zero32 THEN [i \in BitIdx |-> 1]
    ELSE LET j == CHOOSE j \in BitIdx : x[j] = 1 /\ \A k \in 0..(j - 1) : x[k] = 0
         IN [i \in BitIdx |-> IF i < j THEN 1 ELSE IF i = j THEN 0 ELSE x[i]]
\* addr <=> a.addr is less or equal
less_eq(x, y) ==
    x = y \/ \E i \in BitIdx : x[i] < y[i] /\ \A k \in (i + 1)..(AddrBits - 1) : x[k] = y[k]

\* constexpr ipv4 ipv4::to_base(uint8_t mask) const
to_base(addr, mask, ub) ==
    IF mask < 32 THEN shl(shr(addr, 32 - mask, ub), 32 - mask, ub) ELSE addr

\* constexpr ipv4 masked_ipv4::max_ip() const
max_ip(ip, mask, ub) ==
    LET b == to_base(ip, mask, ub)
    IN IF mask < 32 THEN bit_or(b, minus_one(shl(One32, 32 - mask, ub))) ELSE b

\* constexpr bool masked_ipv4::contains(const ipv4& other) const
contains(ip, mask, other, ub) == to_base(other, mask, ub) = ip

\* ipv4_range(ipv4 b, uint8_t m) : masked_ipv4{b.to_base(m), m}, and a / m
ipv4_range(b, m, ub) == [ip |-> to_base(b, m, ub), mask |-> m]

NoRange == [made |-> FALSE, a |-> Zero32, ip |-> Zero32, mask |-> 0, op |-> "none",
            x |-> Zero32, res |-> FALSE, max |-> Zero32]

----------------------------------------------------------------------------
InitState ==
    /\ alive = TRUE
    /\ loop_thread_id = Worker
    /\ job_queue = << >>
    /\ swapped_queue = << >>
    /\ job_waker = FALSE
    /\ wpc = "poll"
    /\ cur = NoJob
    /\ tpc = [t \in AppThreads |-> "idle"]
    /\ prom = [t \in AppThreads |-> NoVal]
    /\ next_id = 1
    /\ counter = 0
    /\ done = << >>
    /\ dropped = {}
    /\ escaped = {}
    /\ cb_threads = {}
    /\ fruns = [t \in AppThreads |-> 0]
    /\ fval = [t \in AppThreads |-> NoVal]
    /\ got = [t \in AppThreads |-> NoVal]
    /\ hooks = << >>
    /\ oneshots = {}
    /\ tk = NoTicker
    /\ tbody = "none"
    /\ tret = NoCall
    /\ tprev = NoCall
    /\ last_ok = "none"
    /\ si = FALSE
    /\ fi = FALSE
    /\ wk = NoTicker
    /\ owner = "none"
    /\ wbody = "none"
    /\ drop_fires = 0
    /\ late_f = FALSE
    /\ wruns = 0
    /\ now = 0
    /\ target_time = {}
    /\ cur_hook = 0
    /\ event_break = FALSE
    /\ event_gotterm = FALSE
    /\ loop_dead = FALSE
    /\ exit_id = 0
    /\ at_stop = NoStop
    /\ ntk = [n \in NetSlots |-> NoNetTicker]
    /\ dt = [t \in AppThreads |-> NoDtor]
    /\ rx = << >>
    /\ bt = BtInit
    /\ bts = [s \in Sides |-> NoStream]
    /\ wire = [s \in Sides |-> << >>]
    /\ held = [s \in Sides |-> {}]
    /\ blog = << >>
    /\ objs = [o \in MsgSlots |-> NoMsg]
    /\ rng = NoRange

----------------------------------------------------------------------------
(* Application threads *)

\* call_soon(f), first half: lock, emplace, unlock
AppCallSoon(t, k) ==
    /\ alive /\ tpc[t] = "idle" /\ next_id <= job_budget
    /\ job_queue' = call_soon_emplace(job_queue, NewJob(k, t))
    /\ next_id' = next_id + 1
    /\ tpc' = [tpc EXCEPT ![t] = "activate"]
    /\ UNCHANGED <<alive, loop_thread_id, swapped_queue, job_waker, wpc, cur, prom, counter, job_budget>>
    /\ UNCHANGED histVars
    /\ UNCHANGED tickVars
    /\ UNCHANGED extVars

\* call(f): inline on the Loop thread, otherwise call_soon(f)
AppCall(t) ==
    /\ alive /\ tpc[t] = "idle" /\ next_id <= job_budget
    /\ IF in_event_loop(t)
       THEN /\ counter' = counter + 1
            /\ cb_threads' = cb_threads \cup {t}
            /\ UNCHANGED <<job_queue, next_id, tpc>>
       ELSE /\ job_queue' = call_soon_emplace(job_queue, NewJob("inc", t))
            /\ next_id' = next_id + 1
            /\ tpc' = [tpc EXCEPT ![t] = "activate"]
            /\ UNCHANGED <<counter, cb_threads>>
    /\ UNCHANGED <<alive, loop_thread_id, swapped_queue, job_waker, wpc, cur, prom, job_budget>>
    /\ UNCHANGED <<done, dropped, escaped, fruns, fval, got, hooks>>
    /\ UNCHANGED tickVars
    /\ UNCHANGED extVars

\* call_get(f): inline on the Loop thread, otherwise a promise, call_soon of the
\* lambda, and fut.get()
AppCallGet(t, k) ==
    /\ alive /\ tpc[t] = "idle" /\ next_id <= job_budget
    /\ IF in_event_loop(t)
       THEN /\ cb_threads' = cb_threads \cup {t}
            /\ fruns' = [fruns EXCEPT ![t] = 1]
            /\ fval' = [fval EXCEPT ![t] = IF k = "getthrow" THEN Exc ELSE Val(counter)]
            /\ got' = [got EXCEPT ![t] = IF k = "getthrow" THEN Exc ELSE Val(counter)]
            /\ UNCHANGED <<job_queue, next_id, tpc, prom>>
       ELSE /\ prom' = [prom EXCEPT ![t] = Empty]
            /\ job_queue' = call_soon_emplace(job_queue, NewJob(k, t))
            /\ next_id' = next_id + 1
            /\ tpc' = [tpc EXCEPT ![t] = "get_activate"]
            /\ fruns' = [fruns EXCEPT ![t] = 0]
            /\ fval' = [fval EXCEPT ![t] = NoVal]
            /\ got' = [got EXCEPT ![t] = NoVal]
            /\ UNCHANGED cb_threads
    /\ UNCHANGED <<alive, loop_thread_id, swapped_queue, job_waker, wpc, cur, counter, job_budget>>
    /\ UNCHANGED <<done, dropped, escaped, hooks>>
    /\ UNCHANGED tickVars
    /\ UNCHANGED extVars

\* call_later(delay, hook): add_oneshot_event on the Loop thread, otherwise
\* call_soon of a lambda that holds the hook and target_time = get_time() + delay
AppCallLater(t, delay) ==
    /\ alive /\ tpc[t] = "idle" /\ next_id <= job_budget
    /\ next_id' = next_id + 1
    /\ target_time' = target_time \cup {[id |-> next_id, t |-> now + delay]}
    /\ IF in_event_loop(t)
       THEN /\ oneshots' = add_oneshot_event(oneshots, next_id, delay, now)
            /\ UNCHANGED <<job_queue, tpc>>
       ELSE /\ job_queue' = call_soon_emplace(job_queue, NewJob("later", t))
            /\ tpc' = [tpc EXCEPT ![t] = "activate"]
            /\ UNCHANGED oneshots
    /\ UNCHANGED <<alive, loop_thread_id, swapped_queue, job_waker, wpc, cur, prom, counter,
                   job_budget>>
    /\ UNCHANGED histVars
    /\ UNCHANGED <<tk, tbody, tret, tprev, last_ok, si, fi>>
    /\ UNCHANGED <<weakVars, now, cur_hook, stopVars, netVars, btVars, ipVars>>

\* call_soon(f), second half: event_active(job_waker.get(), 0, 0)
AppActivate(t) ==
    /\ alive /\ tpc[t] \in {"activate", "get_activate", "close_activate"}
    /\ job_waker' = TRUE
    /\ tpc' = [tpc EXCEPT ![t] = CASE tpc[t] = "activate" -> "idle"
                                    [] tpc[t] = "get_activate" -> "get_wait"
                                    [] OTHER -> "close_wait"]
    /\ UNCHANGED <<alive, loop_thread_id, job_queue, swapped_queue, wpc, cur, prom,
                   next_id, counter, job_budget>>
    /\ UNCHANGED histVars
    /\ UNCHANGED tickVars
    /\ UNCHANGED extVars

\* call_get: return fut.get()
AppGetReturn(t) ==
    /\ alive /\ tpc[t] = "get_wait"
    /\ future_ready(prom[t])
    /\ got' = [got EXCEPT ![t] = prom[t]]
    /\ prom' = [prom EXCEPT ![t] = NoVal]
    /\ tpc' = [tpc EXCEPT ![t] = "idle"]
    /\ UNCHANGED <<alive, loop_thread_id, job_queue, swapped_queue, job_waker, wpc, cur,
                   next_id, counter, job_budget>>
    /\ UNCHANGED <<done, dropped, escaped, cb_threads, fruns, fval, hooks>>
    /\ UNCHANGED tickVars
    /\ UNCHANGED extVars

----------------------------------------------------------------------------
(* The worker: the job_waker callback *)

\* setup_job_waker's callback fires; process_job_queue swaps the queue under the mutex
ProcessJobQueue ==
    /\ alive /\ wpc = "poll" /\ job_waker
    /\ job_waker' = FALSE
    /\ swapped_queue' = job_queue
    /\ job_queue' = << >>
    /\ wpc' = "drain"
    /\ UNCHANGED <<alive, loop_thread_id, cur, tpc, prom, next_id, counter, job_budget>>
    /\ UNCHANGED histVars
    /\ UNCHANGED tickVars
    /\ UNCHANGED extVars

\* while (not swapped_queue.empty()) { job = front(); pop(); job(); }
JobBegin ==
    /\ alive /\ wpc = "drain" /\ swapped_queue # << >>
    /\ cur' = take(swapped_queue).job
    /\ swapped_queue' = take(swapped_queue).rest
    /\ wpc' = "job"
    /\ cb_threads' = cb_threads \cup {Worker}
    /\ UNCHANGED <<alive, loop_thread_id, job_queue, job_waker, tpc, prom, next_id, counter, job_budget>>
    /\ UNCHANGED <<done, dropped, escaped, fruns, fval, got, hooks>>
    /\ UNCHANGED tickVars
    /\ UNCHANGED extVars

\* the loop ends, process_job_queue returns to the reactor
DrainDone ==
    /\ alive /\ wpc = "drain" /\ swapped_queue = << >>
    /\ wpc' = "poll"
    /\ UNCHANGED <<alive, loop_thread_id, job_queue, swapped_queue, job_waker, cur, tpc,
                   prom, next_id, counter, job_budget>>
    /\ UNCHANGED histVars
    /\ UNCHANGED tickVars
    /\ UNCHANGED extVars

Finish == /\ done' = Append(done, cur)
          /\ cur' = NoJob
          /\ wpc' = "drain"

\* job(): a job that throws. process_job_queue and the job_waker callback hold no
\* try block: the exception leaves the worker's thread function, std::terminate.
RunThrow ==
    /\ alive /\ wpc = "job" /\ cur.kind = "throw"
    /\ alive' = FALSE
    /\ escaped' = escaped \cup {cur}
    /\ UNCHANGED <<loop_thread_id, job_queue, swapped_queue, job_waker, wpc, cur, tpc, prom,
                   next_id, counter, job_budget>>
    /\ UNCHANGED <<done, dropped, cb_threads, fruns, fval, got, hooks>>
    /\ UNCHANGED tickVars
    /\ UNCHANGED extVars

\* job(): a job that increments the counter and calls call_soon itself
RunSpawn ==
    /\ alive /\ wpc = "job" /\ cur.kind = "spawn"
    /\ counter' = counter + 1
    /\ IF next_id <= job_budget
       THEN /\ job_queue' = call_soon_emplace(job_queue, NewJob("inc", Worker))
            /\ next_id' = next_id + 1
            /\ job_waker' = TRUE
       ELSE UNCHANGED <<job_queue, next_id, job_waker>>
    /\ Finish
    /\ UNCHANGED <<alive, loop_thread_id, swapped_queue, tpc, prom, job_budget>>
    /\ UNCHANGED <<dropped, escaped, cb_threads, fruns, fval, got, hooks>>
    /\ UNCHANGED tickVars
    /\ UNCHANGED extVars

\* job(): a job that increments the counter, handing the increment to call(f):
\* inline, the job being on the Loop thread
RunInc ==
    /\ alive /\ wpc = "job" /\ cur.kind = "inc"
    /\ IF in_event_loop(Worker)
       THEN /\ counter' = counter + 1
            /\ UNCHANGED <<job_queue, next_id, job_waker>>
       ELSE /\ UNCHANGED counter
            /\ IF next_id <= job_budget
               THEN /\ job_queue' = call_soon_emplace(job_queue, NewJob("inc", Worker))
                    /\ next_id' = next_id + 1
                    /\ job_waker' = TRUE
               ELSE UNCHANGED <<job_queue, next_id, job_waker>>
    /\ Finish
    /\ UNCHANGED <<alive, loop_thread_id, swapped_queue, tpc, prom, job_budget>>
    /\ UNCHANGED <<dropped, escaped, cb_threads, fruns, fval, got, hooks>>
    /\ UNCHANGED tickVars
    /\ UNCHANGED extVars

\* job(): the lambda of an off-thread call_later: if (now >= target_time) func();
\* else add_oneshot_event(target_time - now, func)
RunLater ==
    /\ alive /\ wpc = "job" /\ cur.kind = "later"
    /\ IF call_later_due(now, Target(cur.id))
       THEN /\ hooks' = Append(hooks, [id |-> cur.id, at |-> now, via |-> "job"])
            /\ UNCHANGED oneshots
       ELSE /\ oneshots' = add_oneshot_event(oneshots, cur.id, residual(Target(cur.id), now), now)
            /\ UNCHANGED hooks
    /\ Finish
    /\ UNCHANGED <<alive, loop_thread_id, job_queue, swapped_queue, job_waker, tpc, prom,
                   next_id, counter, job_budget>>
    /\ UNCHANGED <<dropped, escaped, cb_threads, fruns, fval, got>>
    /\ UNCHANGED <<tk, tbody, tret, tprev, last_ok, si, fi>>
    /\ UNCHANGED extVars

\* job(): the lambda of an off-thread call_get
RunGet ==
    /\ alive /\ wpc = "job" /\ cur.kind \in GetKinds
    /\ LET t == cur.by
           r == get_lambda(cur.kind = "getthrow", counter)
       IN /\ fruns' = [fruns EXCEPT ![t] = @ + 1]
          /\ fval' = [fval EXCEPT ![t] = IF cur.kind = "getthrow" THEN Exc ELSE Val(counter)]
          /\ prom' = [prom EXCEPT ![t] = r.prom]
          /\ IF r.escapes
             THEN /\ alive' = FALSE
                  /\ escaped' = escaped \cup {cur}
                  /\ UNCHANGED <<done, cur, wpc, hooks>>
             ELSE /\ Finish
                  /\ UNCHANGED <<alive, escaped>>
    /\ UNCHANGED <<loop_thread_id, job_queue, swapped_queue, job_waker, tpc, next_id, counter, job_budget>>
    /\ UNCHANGED <<dropped, cb_threads, got, hooks>>
    /\ UNCHANGED tickVars
    /\ UNCHANGED extVars

\* job(): a job that itself calls loop.call_get(f). On the Loop thread f runs
\* inline and its value is returned; otherwise the job would call_soon the
\* lambda and wait in fut.get() for a job that only its own thread can run
RunNestGet ==
    /\ alive /\ wpc = "job" /\ cur.kind = "nestget"
    /\ IF in_event_loop(Worker)
       THEN /\ fruns' = [fruns EXCEPT ![cur.by] = @ + 1]
            /\ fval' = [fval EXCEPT ![cur.by] = Val(counter)]
            /\ got' = [got EXCEPT ![cur.by] = Val(counter)]
            /\ Finish
            /\ UNCHANGED <<job_queue, next_id, job_waker>>
       ELSE /\ job_queue' = call_soon_emplace(job_queue, NewJob("get", Worker))
            /\ next_id' = next_id + 1
            /\ job_waker' = TRUE
            /\ wpc' = "fut_get"
            /\ UNCHANGED <<fruns, fval, got, done, cur>>
    /\ UNCHANGED <<alive, loop_thread_id, swapped_queue, tpc, prom, counter, job_budget>>
    /\ UNCHANGED <<dropped, escaped, cb_threads, hooks>>
    /\ UNCHANGED tickVars
    /\ UNCHANGED extVars

----------------------------------------------------------------------------
(* Ticker: operations *)

RecordCall(op, res) ==
    /\ tprev' = tret
    /\ tret' = Called(op, res, tk)
    /\ last_ok' = IF res.r THEN op ELSE last_ok

\* auto h = loop.call_every(interval, f, start_immediately, fixed_interval)
AppCallEvery(t, start_immediately, fixed_interval) ==
    /\ alive /\ tpc[t] = "idle" /\ ~tk.made
    /\ tk' = call_every(start_immediately, fixed_interval)
    /\ si' = start_immediately
    /\ fi' = fixed_interval
    /\ UNCHANGED <<tbody, tret, tprev, last_ok, oneshots>>
    /\ UNCHANGED loopVars
    /\ UNCHANGED histVars
    /\ UNCHANGED extVars

\* h->start()
AppStart(t) ==
    /\ alive /\ tpc[t] = "idle" /\ tk.made
    /\ tk' = start(tk).tk
    /\ RecordCall("start", start(tk))
    /\ UNCHANGED <<tbody, si, fi, oneshots>>
    /\ UNCHANGED loopVars
    /\ UNCHANGED histVars
    /\ UNCHANGED extVars

\* h->stop()
AppStop(t) ==
    /\ alive /\ tpc[t] = "idle" /\ tk.made
    /\ tk' = stop(tk).tk
    /\ RecordCall("stop", stop(tk))
    /\ UNCHANGED <<tbody, si, fi, oneshots>>
    /\ UNCHANGED loopVars
    /\ UNCHANGED histVars
    /\ UNCHANGED extVars

\* h->start() and h->stop() statement by statement, as other threads see them:
\* _is_running is a std::atomic<bool> that is read, and written two statements
\* later; event_add and event_del lock the event_base. op is "start" or "stop".
\* if (_is_running) return false; / if (not _is_running) return false;
TkCheck(t, op) ==
    /\ alive /\ tpc[t] = "idle" /\ tk.made
    /\ IF tk.is_running = (op = "start")
       THEN /\ RecordCall(op, [tk |-> tk, r |-> FALSE])
            /\ UNCHANGED tpc
       ELSE /\ tpc' = [tpc EXCEPT ![t] = IF op = "start" THEN "start_ev" ELSE "stop_ev"]
            /\ UNCHANGED <<tret, tprev, last_ok>>
    /\ UNCHANGED <<alive, loop_thread_id, job_queue, swapped_queue, job_waker, wpc, cur,
                   prom, next_id, counter, job_budget>>
    /\ UNCHANGED <<tk, tbody, si, fi, oneshots>>
    /\ UNCHANGED histVars
    /\ UNCHANGED extVars

\* event_add(ev.get(), &interval) / event_del(ev.get())
TkEvent(t, op) ==
    /\ alive /\ tpc[t] = (IF op = "start" THEN "start_ev" ELSE "stop_ev")
    /\ tk' = [tk EXCEPT !.pending = (op = "start")]
    /\ tpc' = [tpc EXCEPT ![t] = IF op = "start" THEN "start_set" ELSE "stop_set"]
    /\ UNCHANGED <<alive, loop_thread_id, job_queue, swapped_queue, job_waker, wpc, cur,
                   prom, next_id, counter, job_budget>>
    /\ UNCHANGED <<tbody, tret, tprev, last_ok, si, fi, oneshots>>
    /\ UNCHANGED histVars
    /\ UNCHANGED extVars

\* _is_running = true; return true; / _is_running = false; return true;
TkSet(t, op) ==
    /\ alive /\ tpc[t] = (IF op = "start" THEN "start_set" ELSE "stop_set")
    /\ tk' = [tk EXCEPT !.is_running = (op = "start")]
    /\ RecordCall(op, [tk |-> tk', r |-> TRUE])
    /\ tpc' = [tpc EXCEPT ![t] = "idle"]
    /\ UNCHANGED <<alive, loop_thread_id, job_queue, swapped_queue, job_waker, wpc, cur,
                   prom, next_id, counter, job_budget>>
    /\ UNCHANGED <<tbody, si, fi, oneshots>>
    /\ UNCHANGED histVars
    /\ UNCHANGED extVars

\* The timer expires: the event (made without EV_PERSIST) leaves the timer heap
\* and its callback starts: if (not self->f) return; self->f();
TickFire ==
    /\ alive /\ wpc = "poll" /\ tk.pending
    /\ tk' = [tk EXCEPT !.pending = FALSE]
    /\ IF tk.f
       THEN /\ wpc' = "tick"
            /\ tbody' \in TickBodies
            /\ cb_threads' = cb_threads \cup {Worker}
       ELSE UNCHANGED <<wpc, tbody, cb_threads, oneshots>>
    /\ UNCHANGED <<tret, tprev, last_ok, si, fi, oneshots>>
    /\ UNCHANGED <<alive, loop_thread_id, job_queue, swapped_queue, job_waker, cur, tpc,
                   prom, next_id, counter, job_budget>>
    /\ UNCHANGED <<done, dropped, escaped, fruns, fval, got, hooks>>
    /\ UNCHANGED extVars

\* self->f() runs to its end (or to the catch of the event callback)
TickEnd ==
    /\ alive /\ wpc = "tick"
    /\ tk' = periodic_f(tk, tbody)
    /\ IF tbody = "stop" THEN RecordCall("stop", stop(tk)) ELSE UNCHANGED <<tret, tprev, last_ok, oneshots>>
    /\ wpc' = "poll"
    /\ tbody' = "none"
    /\ UNCHANGED <<si, fi, oneshots>>
    /\ UNCHANGED <<alive, loop_thread_id, job_queue, swapped_queue, job_waker, cur, tpc,
                   prom, next_id, counter, job_budget>>
    /\ UNCHANGED histVars
    /\ UNCHANGED extVars

\* The timer of a one-off Ticker expires, not before it is due, and its callback
\* starts: f = [hndlr, func] { auto h = std::move(hndlr); func(); h.reset(); }
OneShotFire ==
    /\ alive /\ wpc = "poll"
    /\ \E o \in oneshots :
          /\ now >= o.due
          /\ oneshots' = oneshots \ {o}
          /\ cur_hook' = o.id
          /\ hooks' = Append(hooks, [id |-> o.id, at |-> now, via |-> "timer"])
    /\ wpc' = "hook"
    /\ cb_threads' = cb_threads \cup {Worker}
    /\ UNCHANGED <<tk, tbody, tret, tprev, last_ok, si, fi>>
    /\ UNCHANGED <<alive, loop_thread_id, job_queue, swapped_queue, job_waker, cur, tpc,
                   prom, next_id, counter, job_budget>>
    /\ UNCHANGED <<done, dropped, escaped, fruns, fval, got>>
    /\ UNCHANGED <<weakVars, now, target_time, stopVars, netVars, btVars, ipVars>>

\* the hook returns and h.reset() destroys the one-off Ticker
HookEnd ==
    /\ alive /\ wpc = "hook"
    /\ wpc' = "poll"
    /\ cur_hook' = 0
    /\ UNCHANGED tickVars
    /\ UNCHANGED <<alive, loop_thread_id, job_queue, swapped_queue, job_waker, cur, tpc,
                   prom, next_id, counter, job_budget>>
    /\ UNCHANGED histVars
    /\ UNCHANGED <<weakVars, now, target_time, stopVars, netVars, btVars, ipVars>>

\* time passes
Tick ==
    /\ now < MaxTime
    /\ now' = now + 1
    /\ UNCHANGED <<loopVars, histVars, tickVars, weakVars, target_time, cur_hook, stopVars, netVars, btVars, ipVars>>

----------------------------------------------------------------------------
(* The weak-bound call_every(interval, owner, f) *)

\* loop.call_every(interval, owner, f): make_handler, start_event with
\* persist = true and start_immediately = true
AppCallEveryWeak(t) ==
    /\ alive /\ tpc[t] = "idle" /\ owner = "none" /\ ~wk.made
    /\ owner' = "held"
    /\ wk' = start_event(NoTicker, TRUE, TRUE)
    /\ UNCHANGED <<wbody, drop_fires, late_f, wruns>>
    /\ UNCHANGED <<loopVars, histVars, tickVars, timeVars, stopVars, netVars, btVars, ipVars>>

\* the application drops the owner
AppDropOwner(t) ==
    /\ alive /\ tpc[t] = "idle" /\ owner = "held"
    /\ owner' = "dropped"
    /\ UNCHANGED <<wk, wbody, drop_fires, late_f, wruns>>
    /\ UNCHANGED <<loopVars, histVars, tickVars, timeVars, stopVars, netVars, btVars, ipVars>>

\* The timer (EV_PERSIST: it stays in the heap) expires, the callback starts
\* and the lambda tries owner.lock()
WeakFire ==
    /\ alive /\ wpc = "poll" /\ wk.pending
    /\ owner = "held" => wruns < MaxWeakRuns
    /\ wpc' = "wtick"
    /\ wbody' = weak_f(owner = "held")
    /\ cb_threads' = cb_threads \cup {Worker}
    /\ drop_fires' = IF owner = "dropped" /\ drop_fires < 2 THEN drop_fires + 1 ELSE drop_fires
    /\ late_f' = (late_f \/ (owner = "dropped" /\ wbody' = "run"))
    /\ UNCHANGED <<wk, owner, wruns>>
    /\ UNCHANGED <<alive, loop_thread_id, job_queue, swapped_queue, job_waker, cur, tpc,
                   prom, next_id, counter, job_budget>>
    /\ UNCHANGED <<done, dropped, escaped, fruns, fval, got, hooks>>
    /\ UNCHANGED <<tickVars, timeVars, stopVars, netVars, btVars, ipVars>>

\* The lambda ends: func() has run (and may have dropped the owner, which the
\* lock kept until now), or hndlr.reset() has destroyed the Ticker
WeakEnd ==
    /\ alive /\ wpc = "wtick"
    /\ IF wbody = "run"
       THEN /\ wruns' = wruns + 1
            /\ \E drops \in BOOLEAN :
                  owner' = IF drops /\ owner = "held" THEN "dropped" ELSE owner
            /\ UNCHANGED wk
       ELSE /\ wk' = Ticker_destroy(wk)
            /\ UNCHANGED <<owner, wruns>>
    /\ wpc' = "poll"
    /\ wbody' = "none"
    /\ UNCHANGED <<drop_fires, late_f>>
    /\ UNCHANGED <<alive, loop_thread_id, job_queue, swapped_queue, job_waker, cur, tpc,
                   prom, next_id, counter, job_budget>>
    /\ UNCHANGED histVars
    /\ UNCHANGED <<tickVars, timeVars, stopVars, netVars, btVars, ipVars>>

----------------------------------------------------------------------------
(* Stopping the worker *)

\* event_base_loop returns and the thread function ends: after the running
\* callback when loopbreak was called; when loopexit was called, once no
\* active event (the job_waker) is left to run
WorkerExit ==
    /\ alive /\ wpc = "poll"
    /\ event_break \/ (event_gotterm /\ ~job_waker)
    /\ wpc' = "exited"
    /\ exit_id' = next_id
    /\ UNCHANGED <<alive, loop_thread_id, job_queue, swapped_queue, job_waker, cur, tpc,
                   prom, next_id, counter, job_budget>>
    /\ UNCHANGED <<histVars, tickVars, weakVars, timeVars, netVars, btVars, ipVars>>
    /\ UNCHANGED <<event_break, event_gotterm, loop_dead, at_stop>>

\* the jobs whose call_soon has returned and that have not been run
Submitted ==
    LET pend == Running \o swapped_queue \o job_queue
        ids == {pend[i].id : i \in 1..Len(pend)}
        mine(u) == {pend[i].id : i \in {k \in 1..Len(pend) : pend[k].by = u}}
        unsent == {i \in ids : \E u \in AppThreads :
                      /\ tpc[u] \in {"activate", "get_activate", "close_activate"}
                      /\ i \in mine(u) /\ \A k \in mine(u) : k <= i}
    IN ids \ unsent

\* Loop::shutdown(immediate), of the revision in which the application stops the
\* Loop itself: loopbreak or loopexit, then join
AppShutdown(t, immediate) ==
    /\ alive /\ tpc[t] = "idle" /\ ~event_break /\ ~event_gotterm
    /\ event_break' = (stop_thread(immediate) = "break")
    /\ event_gotterm' = (stop_thread(immediate) = "exit")
    /\ at_stop' = Requested(immediate, Submitted)
    /\ tpc' = [tpc EXCEPT ![t] = "sd_join"]
    /\ UNCHANGED <<alive, loop_thread_id, job_queue, swapped_queue, job_waker, wpc, cur,
                   prom, next_id, counter, job_budget>>
    /\ UNCHANGED <<histVars, tickVars, weakVars, timeVars, netVars, btVars, ipVars>>
    /\ UNCHANGED <<loop_dead, exit_id>>

\* Loop::shutdown: loop_thread->join() returns, then every Ticker is cancelled
AppShutdownJoin(t) ==
    /\ alive /\ tpc[t] = "sd_join" /\ wpc = "exited"
    /\ tk' = IF tk.made THEN cancel(tk) ELSE tk
    /\ ntk' = stop_all_tickers(ntk)
    /\ tpc' = [tpc EXCEPT ![t] = "idle"]
    /\ UNCHANGED <<alive, loop_thread_id, job_queue, swapped_queue, job_waker, wpc, cur,
                   prom, next_id, counter, job_budget>>
    /\ UNCHANGED <<tbody, tret, tprev, last_ok, si, fi, oneshots>>
    /\ UNCHANGED <<histVars, weakVars, timeVars, stopVars, btVars, ipVars>>
    /\ UNCHANGED <<net, next_net_id, net_made, app_holds, dt>>

----------------------------------------------------------------------------
(* Loop::make_shared: the handle of a Ticker and its loop_deleter *)

\* the jobs that hold the Ticker to delete it ("del", the lambda of
\* loop_deleter) or to let go of its last handle ("reset", the lambda of
\* reset_soon), and have not been run
DelPending ==
    LET pend == Running \o swapped_queue \o job_queue
    IN {i \in 1..Len(pend) : pend[i].kind \in {"del", "reset"}}
\* the application holds a handle of the Ticker that call_every gave it
TickerHeld == tk.made /\ DelPending = {}

\* the last std::shared_ptr<Ticker> is dropped on thread t: loop_deleter's
\* lambda runs there, call([ptr] { delete ptr; }): delete inline on the Loop
\* thread, otherwise call_soon of the delete
AppDropTicker(t) ==
    /\ alive /\ tpc[t] = "idle" /\ TickerHeld /\ next_id <= job_budget
    /\ IF in_event_loop(t)
       THEN /\ tk' = Ticker_destroy(tk)
            /\ UNCHANGED <<job_queue, next_id, tpc>>
       ELSE /\ job_queue' = call_soon_emplace(job_queue, NewJob("del", t))
            /\ next_id' = next_id + 1
            /\ tpc' = [tpc EXCEPT ![t] = "activate"]
            /\ UNCHANGED tk
    /\ UNCHANGED <<alive, loop_thread_id, swapped_queue, job_waker, wpc, cur, prom, counter,
                   job_budget>>
    /\ UNCHANGED <<tbody, tret, tprev, last_ok, si, fi, oneshots>>
    /\ UNCHANGED histVars
    /\ UNCHANGED extVars

\* reset_soon(std::move(handle)): call_soon([ptr] { ptr.reset(); })
AppResetSoon(t) ==
    /\ alive /\ tpc[t] = "idle" /\ TickerHeld /\ next_id <= job_budget
    /\ job_queue' = call_soon_emplace(job_queue, NewJob("reset", t))
    /\ next_id' = next_id + 1
    /\ tpc' = [tpc EXCEPT ![t] = "activate"]
    /\ UNCHANGED <<alive, loop_thread_id, swapped_queue, job_waker, wpc, cur, prom, counter,
                   job_budget>>
    /\ UNCHANGED tickVars
    /\ UNCHANGED histVars
    /\ UNCHANGED extVars

\* job(): delete ptr, ~Ticker: ev.reset(); f = nullptr
RunDel ==
    /\ alive /\ wpc = "job" /\ cur.kind = "del"
    /\ tk' = Ticker_destroy(tk)
    /\ Finish
    /\ UNCHANGED <<alive, loop_thread_id, job_queue, swapped_queue, job_waker, tpc, prom,
                   next_id, counter, job_budget>>
    /\ UNCHANGED <<tbody, tret, tprev, last_ok, si, fi, oneshots>>
    /\ UNCHANGED <<dropped, escaped, cb_threads, fruns, fval, got, hooks>>
    /\ UNCHANGED extVars

\* job(): ptr.reset() in the lambda of reset_soon: the last handle drops on
\* the thread that runs the job, and loop_deleter's call deletes inline there
\* if that is the Loop thread
RunReset ==
    /\ alive /\ wpc = "job" /\ cur.kind = "reset"
    /\ IF in_event_loop(Worker)
       THEN /\ tk' = Ticker_destroy(tk)
            /\ UNCHANGED <<job_queue, next_id, job_waker>>
       ELSE /\ job_queue' = call_soon_emplace(job_queue, NewJob("del", Worker))
            /\ next_id' = next_id + 1
            /\ job_waker' = TRUE
            /\ UNCHANGED tk
    /\ Finish
    /\ UNCHANGED <<alive, loop_thread_id, swapped_queue, tpc, prom, counter, job_budget>>
    /\ UNCHANGED <<tbody, tret, tprev, last_ok, si, fi, oneshots>>
    /\ UNCHANGED <<dropped, escaped, cb_threads, fruns, fval, got, hooks>>
    /\ UNCHANGED extVars

----------------------------------------------------------------------------
(* Network: construction, call_every, ~Network, and ~Loop *)

\* _loop.use_count(): the application's own std::shared_ptr<Loop> and the _loop
\* of every Network
UseCount == (IF app_holds THEN 1 ELSE 0) + Cardinality({n \in NetSlots : net[n].alive})
Destroying(n) == \E t \in AppThreads : dt[t].n = n

\* Network{loop}, Network{n} (the copy constructor) and n.create_linked_network():
\* each is Network(std::shared_ptr<Loop>), net_id{++next_net_id}
NetNew(t, n) ==
    /\ alive /\ tpc[t] = "idle" /\ ~loop_dead /\ net_made < MaxNets
    /\ ~net[n].alive
    /\ app_holds \/ \E m \in NetSlots : net[m].alive /\ ~Destroying(m)
    /\ next_net_id' = next_net(next_net_id)
    /\ net' = [net EXCEPT ![n] = [alive |-> TRUE, id |-> next_net(next_net_id),
                                  ser |-> net_made + 1]]
    /\ net_made' = net_made + 1
    /\ UNCHANGED <<app_holds, ntk, dt>>
    /\ UNCHANGED <<loopVars, histVars, tickVars, weakVars, timeVars, stopVars, btVars, ipVars>>

\* auto h = net.call_every(interval, f, start_immediately):
\* _loop->_call_every(interval, f, net_id, start_immediately)
NetCallEvery(t, n, start_immediately) ==
    /\ alive /\ tpc[t] = "idle" /\ net[n].alive /\ ~Destroying(n)
    /\ ntk[n].ser # net[n].ser
    /\ ntk' = [ntk EXCEPT ![n] =
                 [init_event(NoNetTicker, FALSE, start_immediately, FALSE)
                     EXCEPT !.tag = net[n].id, !.ser = net[n].ser, !.held = TRUE]]
    /\ UNCHANGED <<net, next_net_id, net_made, app_holds, dt>>
    /\ UNCHANGED <<loopVars, histVars, tickVars, weakVars, timeVars, stopVars, btVars, ipVars>>

\* h->start() on a Ticker made through a Network
NetTickerStart(t, n) ==
    /\ alive /\ tpc[t] = "idle" /\ ntk[n].made /\ ~loop_dead
    /\ ntk' = [ntk EXCEPT ![n] = start(ntk[n]).tk]
    /\ UNCHANGED <<net, next_net_id, net_made, app_holds, dt>>
    /\ UNCHANGED <<loopVars, histVars, tickVars, weakVars, timeVars, stopVars, btVars, ipVars>>

\* The timer of a Ticker made through a Network expires and its callback runs
\* to its end: if (not self->f) return; func(); event_del(ev); event_add(ev)
NetTick(n) ==
    /\ alive /\ wpc = "poll" /\ ntk[n].pending
    /\ ntk' = [ntk EXCEPT ![n] = IF ntk[n].f
                                 THEN periodic_f([ntk[n] EXCEPT !.pending = FALSE], "plain")
                                 ELSE [ntk[n] EXCEPT !.pending = FALSE]]
    /\ cb_threads' = IF ntk[n].f THEN cb_threads \cup {Worker} ELSE cb_threads
    /\ UNCHANGED <<net, next_net_id, net_made, app_holds, dt>>
    /\ UNCHANGED <<done, dropped, escaped, fruns, fval, got, hooks>>
    /\ UNCHANGED <<loopVars, tickVars, weakVars, timeVars, stopVars, btVars, ipVars>>

\* The application drops the handle that net.call_every gave it. Its deleter
\* is loop_deleter's lambda, which holds the Loop as a bare this and calls
\* this->call([ptr] { delete ptr; }): a call_soon of a job whose kind names
\* the Ticker to delete. When the Loop has been destroyed, this dangles: the
\* process may crash, or go on with nothing queued that anyone will run.
NetTickerDrop(t, n) ==
    /\ alive /\ tpc[t] = "idle" /\ ntk[n].made /\ ntk[n].held /\ next_id <= job_budget
    /\ ntk' = [ntk EXCEPT ![n].held = FALSE]
    /\ IF loop_dead
       THEN /\ \E crash \in BOOLEAN : alive' = ~crash
            /\ UNCHANGED <<job_queue, next_id, tpc>>
       ELSE /\ job_queue' = call_soon_emplace(job_queue, NewJob(n, t))
            /\ next_id' = next_id + 1
            /\ tpc' = [tpc EXCEPT ![t] = "activate"]
            /\ UNCHANGED alive
    /\ UNCHANGED <<loop_thread_id, swapped_queue, job_waker, wpc, cur, prom, counter,
                   job_budget>>
    /\ UNCHANGED <<net, next_net_id, net_made, app_holds, dt>>
    /\ UNCHANGED <<histVars, tickVars, weakVars, timeVars, stopVars, btVars, ipVars>>

\* job(): delete ptr for a Ticker made through a Network, ~Ticker: ev.reset();
\* f = nullptr
RunNetDel ==
    /\ alive /\ wpc = "job" /\ cur.kind \in NetSlots
    /\ ntk' = [ntk EXCEPT ![cur.kind] = NoNetTicker]
    /\ Finish
    /\ UNCHANGED <<alive, loop_thread_id, job_queue, swapped_queue, job_waker, tpc, prom,
                   next_id, counter, job_budget>>
    /\ UNCHANGED <<net, next_net_id, net_made, app_holds, dt>>
    /\ UNCHANGED <<dropped, escaped, cb_threads, fruns, fval, got, hooks>>
    /\ UNCHANGED <<tickVars, weakVars, timeVars, stopVars, btVars, ipVars>>

\* ~Network begins: if (not shutdown_immediate) close_gracefully(), which hands
\* a job to _loop->call and waits on its future
NetDtorBegin(t, n, immediate) ==
    /\ alive /\ tpc[t] = "idle" /\ net[n].alive /\ ~Destroying(n) /\ ~loop_dead
    /\ dt' = [dt EXCEPT ![t] = [n |-> n, imm |-> immediate]]
    /\ IF immediate \/ in_event_loop(t)
       THEN /\ tpc' = [tpc EXCEPT ![t] = "net_stop"]
            /\ UNCHANGED <<job_queue, next_id, prom>>
       ELSE /\ job_queue' = call_soon_emplace(job_queue, NewJob("close", t))
            /\ next_id' = next_id + 1
            /\ prom' = [prom EXCEPT ![t] = Empty]
            /\ tpc' = [tpc EXCEPT ![t] = "close_activate"]
    /\ UNCHANGED <<alive, loop_thread_id, swapped_queue, job_waker, wpc, cur, counter, job_budget>>
    /\ UNCHANGED <<net, next_net_id, net_made, app_holds, ntk>>
    /\ UNCHANGED <<histVars, tickVars, weakVars, timeVars, stopVars, btVars, ipVars>>

\* job(): the lambda of close_gracefully: the endpoints' _close_conns, then
\* pr.set_value()
RunClose ==
    /\ alive /\ wpc = "job" /\ cur.kind = "close"
    /\ prom' = [prom EXCEPT ![cur.by] = Val(0)]
    /\ Finish
    /\ UNCHANGED <<alive, loop_thread_id, job_queue, swapped_queue, job_waker, tpc, next_id,
                   counter, job_budget>>
    /\ UNCHANGED <<dropped, escaped, cb_threads, fruns, fval, got, hooks>>
    /\ UNCHANGED tickVars
    /\ UNCHANGED extVars

\* close_gracefully: ft.get() returns
NetCloseReturn(t) ==
    /\ alive /\ tpc[t] = "close_wait"
    /\ future_ready(prom[t])
    /\ prom' = [prom EXCEPT ![t] = NoVal]
    /\ tpc' = [tpc EXCEPT ![t] = "net_stop"]
    /\ UNCHANGED <<alive, loop_thread_id, job_queue, swapped_queue, job_waker, wpc, cur,
                   next_id, counter, job_budget>>
    /\ UNCHANGED <<histVars, tickVars, extVars>>

\* ~Network: if (_loop.use_count() == 1) _loop->stop_thread(shutdown_immediate);
NetStopThread(t) ==
    /\ alive /\ tpc[t] = "net_stop"
    /\ IF last_holder(UseCount)
       THEN /\ event_break' = (event_break \/ stop_thread(dt[t].imm) = "break")
            /\ event_gotterm' = (event_gotterm \/ stop_thread(dt[t].imm) = "exit")
            /\ tpc' = [tpc EXCEPT ![t] = "net_join"]
       ELSE /\ tpc' = [tpc EXCEPT ![t] = "net_tickers"]
            /\ UNCHANGED <<event_break, event_gotterm>>
    /\ UNCHANGED <<alive, loop_thread_id, job_queue, swapped_queue, job_waker, wpc, cur,
                   prom, next_id, counter, job_budget>>
    /\ UNCHANGED <<loop_dead, exit_id, at_stop>>
    /\ UNCHANGED <<histVars, tickVars, weakVars, timeVars, netVars, btVars, ipVars>>

\* stop_thread: loop_thread->join() returns
NetJoin(t) ==
    /\ alive /\ tpc[t] = "net_join" /\ wpc = "exited"
    /\ tpc' = [tpc EXCEPT ![t] = "net_tickers"]
    /\ UNCHANGED <<alive, loop_thread_id, job_queue, swapped_queue, job_waker, wpc, cur,
                   prom, next_id, counter, job_budget>>
    /\ UNCHANGED <<histVars, tickVars, extVars>>

\* ~Network: _loop->stop_tickers(net_id); then the members go, _loop among
\* them: the Network that held the last reference runs ~Loop
NetStopTickers(t) ==
    /\ alive /\ tpc[t] = "net_tickers"
    /\ ntk' = stop_tickers(ntk, net[dt[t].n].id)
    /\ tk' = IF tk.made /\ net[dt[t].n].id = loop_id THEN cancel(tk) ELSE tk
    /\ net' = [net EXCEPT ![dt[t].n] = NoNet]
    /\ dt' = [dt EXCEPT ![t] = NoDtor]
    /\ tpc' = [tpc EXCEPT ![t] = IF UseCount = 1 THEN "loop_stop" ELSE "idle"]
    /\ UNCHANGED <<alive, loop_thread_id, job_queue, swapped_queue, job_waker, wpc, cur,
                   prom, next_id, counter, job_budget>>
    /\ UNCHANGED <<tbody, tret, tprev, last_ok, si, fi, oneshots>>
    /\ UNCHANGED <<next_net_id, net_made, app_holds>>
    /\ UNCHANGED <<histVars, weakVars, timeVars, stopVars, btVars, ipVars>>

\* The application lets go of its std::shared_ptr<Loop>
AppReleaseLoop(t) ==
    /\ alive /\ tpc[t] = "idle" /\ app_holds
    /\ app_holds' = FALSE
    /\ tpc' = [tpc EXCEPT ![t] = IF UseCount = 1 THEN "loop_stop" ELSE "idle"]
    /\ UNCHANGED <<alive, loop_thread_id, job_queue, swapped_queue, job_waker, wpc, cur,
                   prom, next_id, counter, job_budget>>
    /\ UNCHANGED <<net, next_net_id, net_made, ntk, dt>>
    /\ UNCHANGED <<histVars, tickVars, weakVars, timeVars, stopVars, btVars, ipVars>>

\* ~Loop: stop_thread(), immediate by default: event_base_loopbreak
LoopDtorStop(t) ==
    /\ alive /\ tpc[t] = "loop_stop"
    /\ event_break' = (event_break \/ stop_thread(TRUE) = "break")
    /\ event_gotterm' = (event_gotterm \/ stop_thread(TRUE) = "exit")
    /\ tpc' = [tpc EXCEPT ![t] = "loop_join"]
    /\ UNCHANGED <<alive, loop_thread_id, job_queue, swapped_queue, job_waker, wpc, cur,
                   prom, next_id, counter, job_budget>>
    /\ UNCHANGED <<loop_dead, exit_id, at_stop>>
    /\ UNCHANGED <<histVars, tickVars, weakVars, timeVars, netVars, btVars, ipVars>>

\* ~Loop: the join returns, then every live Ticker of every id: f = nullptr, stop()
LoopDtorJoin(t) ==
    /\ alive /\ tpc[t] = "loop_join" /\ wpc = "exited"
    /\ tk' = IF tk.made THEN cancel(tk) ELSE tk
    /\ ntk' = stop_all_tickers(ntk)
    /\ loop_dead' = TRUE
    /\ tpc' = [tpc EXCEPT ![t] = "idle"]
    /\ UNCHANGED <<alive, loop_thread_id, job_queue, swapped_queue, job_waker, wpc, cur,
                   prom, next_id, counter, job_budget>>
    /\ UNCHANGED <<tbody, tret, tprev, last_ok, si, fi, oneshots>>
    /\ UNCHANGED <<net, next_net_id, net_made, app_holds, dt>>
    /\ UNCHANGED <<event_break, event_gotterm, exit_id, at_stop>>
    /\ UNCHANGED <<histVars, weakVars, timeVars, btVars, ipVars>>

----------------------------------------------------------------------------
(* BTRequestStream: the parser *)

\* the stream's receive callback, with whatever bytes the transport has
Receive(chunk) ==
    /\ Len(rx) + Len(chunk) <= MaxStream
    /\ rx' = rx \o chunk
    /\ bt' = receive(bt, chunk)
    /\ UNCHANGED <<bts, wire, held, blog, objs>>
    /\ UNCHANGED <<loopVars, histVars, tickVars, weakVars, timeVars, stopVars, netVars, ipVars>>

----------------------------------------------------------------------------
(* BTRequestStream: requests, responses, timeouts, close *)

\* stream.register_command(ep, func)
Register(s, ep) ==
    /\ ep \notin bts[s].func_map
    /\ bts' = [bts EXCEPT ![s].func_map = @ \cup {ep}]
    /\ UNCHANGED <<rx, bt, wire, held, blog, objs>>
    /\ UNCHANGED <<loopVars, histVars, tickVars, weakVars, timeVars, stopVars, netVars, ipVars>>

\* what the job of an off-thread register_command finds behind its references
\* to the parameters ep and func, whose lifetime ended when register_command
\* returned: the name that was passed, another string, or a fault
DanglingEp == Eps \cup {"fault"}

\* stream.register_command("ep", func) on a thread that is not the Loop thread:
\* endpoint.call([&]() { func_map[std::move(ep)] = std::move(func); }) queues
\* the lambda, which holds ep and func by reference, and returns
AppRegister(t, s) ==
    /\ alive /\ tpc[t] = "idle" /\ next_id <= job_budget
    /\ ~in_event_loop(t)
    /\ job_queue' = call_soon_emplace(job_queue, NewJob("reg", t))
    /\ next_id' = next_id + 1
    /\ tpc' = [tpc EXCEPT ![t] = "activate"]
    /\ UNCHANGED <<alive, loop_thread_id, swapped_queue, job_waker, wpc, cur, prom, counter,
                   job_budget>>
    /\ UNCHANGED <<histVars, tickVars, extVars>>

\* job(): func_map[std::move(ep)] = std::move(func), through the references
RunReg(s) ==
    /\ alive /\ wpc = "job" /\ cur.kind = "reg"
    /\ \E e \in DanglingEp :
         /\ alive' = (e # "fault")
         /\ bts' = IF e = "fault" THEN bts
                   ELSE [bts EXCEPT ![s].func_map = @ \cup {e}]
    /\ Finish
    /\ UNCHANGED <<loop_thread_id, job_queue, swapped_queue, job_waker, tpc, prom,
                   next_id, counter, job_budget>>
    /\ UNCHANGED <<dropped, escaped, cb_threads, fruns, fval, got, hooks>>
    /\ UNCHANGED <<rx, bt, wire, held, blog, objs>>
    /\ UNCHANGED <<tickVars, weakVars, timeVars, stopVars, netVars, ipVars>>

\* stream.command(ep, body, cb, timeout): the next request id, the request
\* appended to sent_reqs, its payload sent
Command(s, ep, body, timeout) ==
    /\ ~bts[s].closing /\ bts[s].next_rid < MaxReqs
    /\ bts' = [bts EXCEPT ![s].next_rid = @ + 1,
                          ![s].sent_reqs = Append(@, sent_request(bts[s].next_rid,
                                 encode_command(ep, bts[s].next_rid, body), now, timeout))]
    /\ wire' = [wire EXCEPT ![Peer(s)] = Append(@, encode_command(ep, bts[s].next_rid, body))]
    /\ UNCHANGED <<rx, bt, held, blog, objs>>
    /\ UNCHANGED <<loopVars, histVars, tickVars, weakVars, timeVars, stopVars, netVars, ipVars>>

\* a message from a peer that is not the BTRequestStream of this model: any
\* list that the parser can have put together
Inject(s, raw) ==
    /\ wire[s] = << >> /\ Len(blog) < MaxLog
    /\ wire' = [wire EXCEPT ![s] = <<raw>>]
    /\ UNCHANGED <<rx, bt, bts, held, blog, objs>>
    /\ UNCHANGED <<loopVars, histVars, tickVars, weakVars, timeVars, stopVars, netVars, ipVars>>

\* receive -> process_incoming -> handle_input(message{*this, std::move(buf)})
\* with the next message that has arrived; the message constructor may throw,
\* which receive catches: close(BPARSER_ERROR_EXCEPTION)
HandleInput(s) ==
    /\ wire[s] # << >>
    /\ wire' = [wire EXCEPT ![s] = Tail(@)]
    /\ LET msg == message(Head(wire[s]), FALSE, "q")
           r == handle_input(s, bts[s], msg)
       IN IF bts[s].closing
          THEN UNCHANGED <<bts, blog, held>>
          ELSE IF msg.throws
          THEN /\ bts' = [bts EXCEPT ![s].closing = TRUE]
               /\ UNCHANGED <<blog, held>>
          ELSE /\ bts' = [bts EXCEPT ![s] = r.st]
               /\ blog' = blog \o r.events
               /\ held' = [held EXCEPT ![s] = @ \cup
                              {r.events[i].msg : i \in {k \in 1..Len(r.events) :
                                                         r.events[k].kind = "handler"}}]
    /\ UNCHANGED <<rx, bt, objs>>
    /\ UNCHANGED <<loopVars, histVars, tickVars, weakVars, timeVars, stopVars, netVars, ipVars>>

\* a handler answers a command it holds: msg.respond(body, error) ->
\* BTRequestStream::respond(req_id, body, error) -> send
Respond(s, m, body, error) ==
    /\ m \in held[s] /\ ~bts[s].closing
    /\ held' = [held EXCEPT ![s] = @ \ {m}]
    /\ wire' = [wire EXCEPT ![Peer(s)] = Append(@, encode_response(m.req_id, body, error))]
    /\ UNCHANGED <<rx, bt, bts, blog, objs>>
    /\ UNCHANGED <<loopVars, histVars, tickVars, weakVars, timeVars, stopVars, netVars, ipVars>>

\* the timeout sweep: check_timeouts(), while requests are in flight
CheckTimeouts(s) ==
    /\ bts[s].sent_reqs # << >> /\ bts[s].sweeps < MaxSweeps
    /\ LET r == check_timeouts(bts[s].sent_reqs, now)
       IN /\ bts' = [bts EXCEPT ![s].sent_reqs = r.rest, ![s].sweeps = @ + 1]
          /\ blog' = blog \o [i \in 1..Len(r.popped) |->
                                Event(s, "timeout", r.popped[i].req_id,
                                      message_copy("q", to_timeout(r.popped[i]), FALSE))]
    /\ UNCHANGED <<rx, bt, wire, held, objs>>
    /\ UNCHANGED <<loopVars, histVars, tickVars, weakVars, timeVars, stopVars, netVars, ipVars>>

\* what auto& f = sent_reqs.front() and f->is_expired(now) give on an empty
\* deque, where front() has no element to refer to: a fault, or whatever lies
\* there read as a request that has expired or as one that has not
FrontOfEmpty == {"fault", "expired", "not_expired"}

\* the timeout sweep while no request is in flight: the do-while body runs
\* once before sent_reqs.empty() is looked at
CheckTimeoutsEmpty(s) ==
    /\ alive /\ bts[s].sent_reqs = << >> /\ bts[s].sweeps < MaxSweeps
    /\ \E o \in FrontOfEmpty :
         /\ o = "expired" => Len(blog) < MaxLog
         /\ alive' = (o # "fault")
         /\ blog' = IF o = "expired"
                    THEN Append(blog, Event(s, "timeout", NoExpiry, NoMsg))
                    ELSE blog
    /\ bts' = [bts EXCEPT ![s].sweeps = @ + 1]
    /\ UNCHANGED <<rx, bt, wire, held, objs>>
    /\ UNCHANGED <<loop_thread_id, job_queue, swapped_queue, job_waker, wpc, cur, tpc, prom,
                   next_id, job_budget, counter>>
    /\ UNCHANGED <<histVars, tickVars, weakVars, timeVars, stopVars, netVars, ipVars>>

\* the transport closes the stream: closed(app_code) -> close_callback
Closed(s) ==
    /\ bts[s].closed_cb = 0
    /\ bts' = [bts EXCEPT ![s].closing = TRUE, ![s].closed_cb = 1]
    /\ UNCHANGED <<rx, bt, wire, held, blog, objs>>
    /\ UNCHANGED <<loopVars, histVars, tickVars, weakVars, timeVars, stopVars, netVars, ipVars>>

----------------------------------------------------------------------------
(* ipv4_range: construction, max_ip, contains *)

\* auto r = a / m;
RangeMake(a, m) ==
    /\ ~rng.made
    /\ \E ub \in ShiftOutcomes :
         rng' = [NoRange EXCEPT !.made = TRUE, !.a = a, !.mask = m,
                                !.ip = ipv4_range(a, m, ub).ip]
    /\ UNCHANGED <<loopVars, histVars, tickVars, weakVars, timeVars, stopVars, netVars, btVars>>

\* r goes out of scope
RangeDrop ==
    /\ rng.made
    /\ rng' = NoRange
    /\ UNCHANGED <<loopVars, histVars, tickVars, weakVars, timeVars, stopVars, netVars, btVars>>

\* r.max_ip()
RangeMaxIp ==
    /\ rng.made
    /\ \E ub \in ShiftOutcomes :
         rng' = [rng EXCEPT !.op = "max_ip", !.max = max_ip(rng.ip, rng.mask, ub)]
    /\ UNCHANGED <<loopVars, histVars, tickVars, weakVars, timeVars, stopVars, netVars, btVars>>

\* r.contains(x)
RangeContains(x) ==
    /\ rng.made
    /\ \E ub \in ShiftOutcomes :
         rng' = [rng EXCEPT !.op = "contains", !.x = x,
                            !.res = contains(rng.ip, rng.mask, x, ub)]
    /\ UNCHANGED <<loopVars, histVars, tickVars, weakVars, timeVars, stopVars, netVars, btVars>>

----------------------------------------------------------------------------
(* message objects: construction, copy and move *)

\* message m{stream, req, is_error} in the slot o
MsgConstruct(o, raw, is_error) ==
    /\ ~objs[o].made /\ ~message(raw, is_error, o).throws
    /\ objs' = [objs EXCEPT ![o] = message(raw, is_error, o)]
    /\ UNCHANGED <<rx, bt, bts, wire, held, blog>>
    /\ UNCHANGED <<loopVars, histVars, tickVars, weakVars, timeVars, stopVars, netVars, ipVars>>

\* message dst{src} and message dst{std::move(src)}: the members of dst that
\* operator= does not assign are as default initialisation leaves them, and
\* src is moved from when moved
MsgCopyCtor(dst, src, move, dflt) ==
    /\ dst # src /\ objs[src].made /\ ~objs[dst].made
    /\ objs' = [objs EXCEPT ![dst] = [message_copy(dst, objs[src], dflt) EXCEPT !.from = src],
                            ![src] = IF move THEN NoMsg ELSE @]
    /\ UNCHANGED <<rx, bt, bts, wire, held, blog>>
    /\ UNCHANGED <<loopVars, histVars, tickVars, weakVars, timeVars, stopVars, netVars, ipVars>>

\* dst = src and dst = std::move(src), on a message dst that exists
MsgAssign(dst, src, move) ==
    /\ dst # src /\ objs[src].made /\ objs[dst].made
    /\ objs' = [objs EXCEPT ![dst] = [message_assign(objs[dst], dst, objs[src]) EXCEPT !.from = src],
                            ![src] = IF move THEN NoMsg ELSE @]
    /\ UNCHANGED <<rx, bt, bts, wire, held, blog>>
    /\ UNCHANGED <<loopVars, histVars, tickVars, weakVars, timeVars, stopVars, netVars, ipVars>>

\* the message in the slot o goes out of scope
MsgDestroy(o) ==
    /\ objs[o].made
    /\ objs' = [objs EXCEPT ![o] = NoMsg]
    /\ UNCHANGED <<rx, bt, bts, wire, held, blog>>
    /\ UNCHANGED <<loopVars, histVars, tickVars, weakVars, timeVars, stopVars, netVars, ipVars>>

----------------------------------------------------------------------------
(* The header-only Loop (the earlier revision of the class, with the bodies *)
(* in the class definition): its process_job_queue ends in the statement    *)
(* "job;", which names the job and does not call it.                        *)

HdrJob ==
    /\ alive /\ wpc = "drain" /\ swapped_queue # << >>
    /\ swapped_queue' = take(swapped_queue).rest
    /\ dropped' = dropped \cup {take(swapped_queue).job.id}
    /\ UNCHANGED <<alive, loop_thread_id, job_queue, job_waker, wpc, cur, tpc, prom,
                   next_id, counter, job_budget>>
    /\ UNCHANGED <<done, escaped, cb_threads, fruns, fval, got, hooks>>
    /\ UNCHANGED tickVars
    /\ UNCHANGED extVars

----------------------------------------------------------------------------
\* no Network yet: the application made the Loop and holds it
NoNetworks ==
    /\ net = [n \in NetSlots |-> NoNet]
    /\ next_net_id = 0
    /\ net_made = 0
    /\ app_holds = TRUE

Init == InitState /\ NoNetworks /\ job_budget = MaxJobs

InitTicker == InitState /\ NoNetworks /\ job_budget = MaxTickerJobs

\* call_soon, call and call_get, from application threads
Submit ==
    \/ \E t \in AppThreads, k \in SoonKinds : AppCallSoon(t, k)
    \/ \E t \in AppThreads : AppCall(t)
    \/ \E t \in AppThreads, k \in GetKinds : AppCallGet(t, k)
    \/ \E t \in AppThreads : AppActivate(t)
    \/ \E t \in AppThreads : AppGetReturn(t)

RunJob ==
    \/ JobBegin
    \/ RunInc
    \/ RunThrow
    \/ RunSpawn
    \/ RunGet

\* call_later: its call_soon job and the one-off timers
Later ==
    \/ \E t \in AppThreads, d \in 0..MaxDelay : AppCallLater(t, d)
    \/ RunLater
    \/ OneShotFire
    \/ HookEnd

TickerOps ==
    \/ \E t \in AppThreads, s \in BOOLEAN, fx \in BOOLEAN : AppCallEvery(t, s, fx)
    \/ \E t \in AppThreads : AppStart(t)
    \/ \E t \in AppThreads : AppStop(t)
    \/ TickFire
    \/ TickEnd

\* The job queue
Next ==
    \/ Submit
    \/ ProcessJobQueue
    \/ DrainDone
    \/ RunJob

Spec == Init /\ [][Next]_vars

\* call and call_get, from application threads and from jobs on the Loop
\* thread
NextCall ==
    \/ \E t \in AppThreads : AppCallSoon(t, "nestget")
    \/ \E t \in AppThreads : AppCall(t)
    \/ \E t \in AppThreads : AppCallGet(t, "get")
    \/ \E t \in AppThreads : AppActivate(t)
    \/ \E t \in AppThreads : AppGetReturn(t)
    \/ ProcessJobQueue
    \/ JobBegin
    \/ DrainDone
    \/ RunInc
    \/ RunGet
    \/ RunNestGet

SpecCall == Init /\ [][NextCall]_vars

\* A Ticker whose handle the application drops, while the Loop runs and after
\* it has been shut down
NextDrop ==
    \/ \E t \in AppThreads : AppCallEvery(t, TRUE, FALSE)
    \/ \E t \in AppThreads : TickerHeld /\ AppStart(t)
    \/ \E t \in AppThreads : AppDropTicker(t)
    \/ \E t \in AppThreads : AppResetSoon(t)
    \/ \E t \in AppThreads : AppActivate(t)
    \/ \E t \in AppThreads, i \in BOOLEAN : AppShutdown(t, i)
    \/ \E t \in AppThreads : AppShutdownJoin(t)
    \/ ProcessJobQueue
    \/ JobBegin
    \/ DrainDone
    \/ RunDel
    \/ RunReset
    \/ TickFire
    \/ TickEnd
    \/ WorkerExit

SpecDrop == InitTicker /\ [][NextDrop]_vars

\* A Ticker that two application threads start and stop at the same time, while
\* the Loop thread runs its callback
NextRace ==
    \/ \E t \in AppThreads : AppCallEvery(t, TRUE, FALSE)
    \/ \E t \in AppThreads, op \in {"start", "stop"} : TkCheck(t, op)
    \/ \E t \in AppThreads, op \in {"start", "stop"} : TkEvent(t, op)
    \/ \E t \in AppThreads, op \in {"start", "stop"} : TkSet(t, op)
    \/ TickFire /\ tbody' = "plain"
    \/ TickEnd

SpecRace == InitTicker /\ [][NextRace]_vars

\* A Ticker beside the job queue
NextTicker ==
    \/ Submit
    \/ ProcessJobQueue
    \/ DrainDone
    \/ RunJob
    \/ TickerOps

SpecTicker == InitTicker /\ [][NextTicker]_vars

\* call_later beside the job queue, and the clock
InitLater == InitState /\ NoNetworks /\ job_budget = MaxLaterJobs

NextLater ==
    \/ Later
    \/ \E t \in AppThreads : AppActivate(t)
    \/ ProcessJobQueue
    \/ DrainDone
    \/ JobBegin
    \/ Tick

SpecLater == InitLater /\ [][NextLater]_vars

\* The job queue and Loop::shutdown
InitShut == InitState /\ NoNetworks /\ job_budget = MaxShutJobs

NextShut ==
    \/ Submit
    \/ ProcessJobQueue
    \/ DrainDone
    \/ RunJob
    \/ \E t \in AppThreads, i \in BOOLEAN : AppShutdown(t, i)
    \/ \E t \in AppThreads : AppShutdownJoin(t)
    \/ WorkerExit

SpecShut == InitShut /\ [][NextShut]_vars

WeakOps ==
    \/ \E t \in AppThreads : AppCallEveryWeak(t)
    \/ \E t \in AppThreads : AppDropOwner(t)
    \/ WeakFire
    \/ WeakEnd

\* A weak-bound Ticker beside the job queue
NextWeak ==
    \/ Submit
    \/ ProcessJobQueue
    \/ DrainDone
    \/ RunJob
    \/ WeakOps

SpecWeak == InitTicker /\ [][NextWeak]_vars

\* What next_net_id is where the behaviours begin: 1, the first Network having
\* been constructed, or CallerIdMod - 1, after CallerIdMod - 2 more were
\* constructed and destroyed
NetStarts == {1, CallerIdMod - 1}

\* One Network, the first constructed: Network() with a Loop of its own, or
\* Network{loop} with a Loop that the application made and holds
InitNet ==
    /\ InitState
    /\ job_budget = MaxTickerJobs
    /\ net = [n \in NetSlots |-> IF n = "n1" THEN [alive |-> TRUE, id |-> 1, ser |-> 1]
                                             ELSE NoNet]
    /\ next_net_id \in NetStarts
    /\ net_made = 1
    /\ app_holds \in BOOLEAN

\* what the application does with the Loop it holds, and with a Ticker of the
\* Loop while the Loop exists
LoopOps ==
    \/ \E t \in AppThreads : app_holds /\ AppCallEvery(t, TRUE, FALSE)
    \/ \E t \in AppThreads : ~loop_dead /\ ~tk.is_running /\ AppStart(t)
    \/ \E t \in AppThreads : AppReleaseLoop(t)
    \/ \E t \in AppThreads : LoopDtorStop(t)
    \/ \E t \in AppThreads : LoopDtorJoin(t)

NetOps ==
    \/ \E t \in AppThreads, n \in NetSlots : NetCallEvery(t, n, TRUE)
    \/ \E t \in AppThreads, n \in NetSlots : NetTickerStart(t, n)
    \/ \E n \in NetSlots : NetTick(n)
    \/ \E t \in AppThreads, n \in NetSlots, i \in BOOLEAN : NetDtorBegin(t, n, i)
    \/ \E t \in AppThreads : NetCloseReturn(t)
    \/ \E t \in AppThreads : NetStopThread(t)
    \/ \E t \in AppThreads : NetJoin(t)
    \/ \E t \in AppThreads : NetStopTickers(t)

\* the worker; the jobs are those of close_gracefully, and the function of the
\* Loop's Ticker returns or throws
NetWorker ==
    \/ \E t \in AppThreads : AppActivate(t)
    \/ ProcessJobQueue
    \/ JobBegin
    \/ RunClose
    \/ DrainDone
    \/ TickFire /\ tbody' # "stop"
    \/ TickEnd
    \/ WorkerExit

\* Networks made on one Loop, and destroyed
NextNet ==
    \/ \E t \in AppThreads, n \in NetSlots : NetNew(t, n)
    \/ LoopOps
    \/ NetOps
    \/ NetWorker

SpecNet == InitNet /\ [][NextNet]_vars

\* The Networks there are, one or two, on a Loop of their own or on one that
\* the application holds, destroyed down to the Loop
InitDtor ==
    /\ InitState
    /\ job_budget = MaxTickerJobs
    /\ \E two \in BOOLEAN :
         /\ net = [n \in NetSlots |->
                     IF n = "n1" THEN [alive |-> TRUE, id |-> 1, ser |-> 1]
                     ELSE IF two THEN [alive |-> TRUE, id |-> 2, ser |-> 2] ELSE NoNet]
         /\ next_net_id = IF two THEN 2 ELSE 1
         /\ net_made = IF two THEN 2 ELSE 1
    /\ app_holds \in BOOLEAN

NextDtor ==
    \/ LoopOps
    \/ NetOps
    \/ NetWorker

SpecDtor == InitDtor /\ [][NextDtor]_vars

\* The same, and the application drops the handles of the Tickers at any time
NextHandle ==
    \/ LoopOps
    \/ NetOps
    \/ NetWorker
    \/ \E t \in AppThreads, n \in NetSlots : NetTickerDrop(t, n)
    \/ RunNetDel

SpecHandle == InitDtor /\ [][NextHandle]_vars

\* the addresses that ranges are made of, and every mask
IpSamples ==
    {ipv4(0, 0, 0, 0), ipv4(127, 8, 69, 42), ipv4(127, 8, 0, 0), ipv4(127, 8, 255, 255),
     ipv4(127, 7, 255, 255), ipv4(127, 9, 0, 0), ipv4(255, 255, 255, 255)}
Masks == 0..AddrBits
\* a with its low k bits cleared, and set
ClearLow(a, k) == [i \in BitIdx |-> IF i < k THEN 0 ELSE a[i]]
SetLow(a, k) == [i \in BitIdx |-> IF i < k THEN 1 ELSE a[i]]
\* the addresses asked of a range: the samples, the two ends of the range, and
\* the address given with the lowest bit above the host part turned over
Probes ==
    LET k == AddrBits - rng.mask
    IN IpSamples \cup {ClearLow(rng.a, k), SetLow(rng.a, k)}
         \cup {[rng.a EXCEPT ![j] = 1 - @] : j \in {k} \cap BitIdx}

\* Ranges of any address and mask, asked for their last address and for
\* whether they contain an address
NextRange ==
    \/ \E a \in IpSamples, m \in Masks : RangeMake(a, m)
    \/ RangeMaxIp
    \/ RangeDrop
    \/ \E x \in Probes : RangeContains(x)

SpecRange == Init /\ [][NextRange]_vars

\* A BTRequestStream given bytes in chunks of any sizes
NextParse == \E n \in 1..(MaxStream - Len(rx)) : \E chunk \in [1..n -> Bytes] : Receive(chunk)

SpecParse == Init /\ [][NextParse]_vars

\* the lists that can arrive: commands, responses and errors, and a list
\* whose second element is no integer
Raws ==
    {encode_command(e, 0, "b1") : e \in Eps}
        \cup {encode_response(r, "b1", err) : r \in 0..MaxReqs, err \in BOOLEAN}
        \cup {<<StrEl("R"), StrEl("b1")>>}

\* One BTRequestStream, its requests and handlers, and a peer that sends it
\* any message at any time
NextReq ==
    \/ \E e \in Eps : Register("a", e)
    \/ \E t \in {NoExpiry} \cup 0..MaxDelay : Command("a", "ep", "b1", t)
    \/ \E raw \in Raws : Inject("a", raw)
    \/ HandleInput("a")
    \/ CheckTimeouts("a")
    \/ Closed("a")
    \/ Tick

SpecReq == Init /\ [][NextReq]_vars

\* Messages as the stream makes them, from what arrives and as timeouts, and
\* the copies and moves made of them
NextMsg ==
    \/ \E o \in MsgSlots, raw \in Raws, e \in BOOLEAN : MsgConstruct(o, raw, e)
    \/ \E dst, src \in MsgSlots, move, dflt \in BOOLEAN : MsgCopyCtor(dst, src, move, dflt)
    \/ \E dst, src \in MsgSlots, move \in BOOLEAN : MsgAssign(dst, src, move)
    \/ \E o \in MsgSlots : MsgDestroy(o)

SpecMsg == Init /\ [][NextMsg]_vars

\* One BTRequestStream whose requests have deadlines, the clock, the timeout
\* sweep, and a peer that answers or does not
NextSweep ==
    \/ \E t \in {NoExpiry} \cup 0..MaxDelay : Command("a", "ep", "b1", t)
    \/ \E r \in 0..MaxReqs : Inject("a", encode_response(r, "b1", FALSE))
    \/ HandleInput("a")
    \/ CheckTimeouts("a")
    \/ Tick

SpecSweep == Init /\ [][NextSweep]_vars

\* The same, with the sweep run whether or not a request is in flight
NextSweepAny ==
    \/ alive /\ NextSweep
    \/ CheckTimeoutsEmpty("a")

SpecSweepAny == Init /\ [][NextSweepAny]_vars

\* One BTRequestStream with requests in flight, its handler table, and a peer
\* that sends it commands
NextCmd ==
    \/ \E e \in Eps : Register("a", e)
    \/ Command("a", "ep", "b1", NoExpiry)
    \/ \E e \in Eps, r \in 0..MaxReqs : Inject("a", encode_command(e, r, "b1"))
    \/ HandleInput("a")

SpecCmd == Init /\ [][NextCmd]_vars

\* One BTRequestStream whose handlers are registered from application threads,
\* and a peer that sends it commands
NextReg ==
    \/ \E t \in AppThreads : AppRegister(t, "a")
    \/ \E t \in AppThreads : AppActivate(t)
    \/ ProcessJobQueue
    \/ JobBegin
    \/ DrainDone
    \/ RunReg("a")
    \/ \E e \in Eps : alive /\ Inject("a", encode_command(e, 0, "b1"))
    \/ alive /\ HandleInput("a")

SpecReg == Init /\ [][NextReg]_vars

\* Two BTRequestStreams, one at each end of the stream: side "a" sends
\* commands, the handlers of side "b" answer them, and side "a" gets the
\* responses
NextRT ==
    \/ \E e \in Eps : Register("b", e)
    \/ \E e \in Eps, b \in Bodies : Command("a", e, b, NoExpiry)
    \/ \E s \in Sides : HandleInput(s)
    \/ \E b \in Bodies, err \in BOOLEAN : \E m \in held["b"] : Respond("b", m, b, err)

SpecRT == Init /\ [][NextRT]_vars

\* The header-only Loop
NextHdr ==
    \/ \E t \in AppThreads, k \in SoonKinds : AppCallSoon(t, k)
    \/ \E t \in AppThreads, k \in GetKinds : AppCallGet(t, k)
    \/ \E t \in AppThreads : AppActivate(t)
    \/ ProcessJobQueue
    \/ DrainDone
    \/ HdrJob

SpecHdr == Init /\ [][NextHdr]_vars

----------------------------------------------------------------------------
(* Properties *)

\* every job in the order in which it ran, runs or is still to be run
Pipeline == done \o Running \o swapped_queue \o job_queue
IncKinds == {"inc", "spawn"}
\* the place in done of the last call_get lambda of thread t (0: none)
LastGet(t) ==
    LET S == {i \in 1..Len(done) : done[i].by = t /\ done[i].kind \in GetKinds}
    IN IF S = {} THEN 0 ELSE CHOOSE i \in S : \A k \in S : k <= i

\* C1: every job given to call_soon is run exactly once: at any time each job
\* submitted so far is still queued, is being run or has been run once; no
\* job leaves the queue without being called.
C1_EveryJobRuns ==
    /\ \A n \in 1..(next_id - 1) : n \in Ids(Pipeline)
    /\ \A i, j \in 1..Len(done) : done[i].id = done[j].id => i = j
    /\ dropped = {}

\* C2: jobs run in the order in which they entered the queue (ids are given in
\* that order): the jobs run so far, the running one and the queued ones are
\* in increasing order, whoever submitted them, a job of the Loop thread
\* included.
C2_Fifo ==
    \A i, j \in 1..Len(Pipeline) : i < j => Pipeline[i].id < Pipeline[j].id

\* C2 witness: three jobs have run, the first one submitted a job from inside
\* the Loop thread, and that job ran after a job of the first one's submitter
\* that was queued ahead of it.
C2_Witness ==
    /\ Len(done) = 3
    /\ done[1].kind = "spawn" /\ done[2].by = done[1].by /\ done[3].by = Worker

C4_CallGet ==
    \A t \in AppThreads :
        /\ cb_threads \subseteq {Worker}
        /\ fruns[t] <= 1
        /\ (wpc = "job" /\ cur.kind \in GetKinds /\ cur.by = t)
               => tpc[t] \in {"get_activate", "get_wait"}
        /\ got[t].st # "none" => (fruns[t] = 1 /\ got[t] = fval[t] /\ LastGet(t) > 0)

\* C4 witness: call_get has returned a value of f that shows an earlier job.
C4_Witness ==
    \E t \in AppThreads : tpc[t] = "idle" /\ got[t].st = "val" /\ got[t].v = 1

\* C5: an error raised by the f of an off-thread call_get reaches the caller
\* (the promise holds it, call_get returns it) and does not leave the lambda
\* on the Loop thread, which the error does not stop.
C5_ErrorToCaller ==
    /\ \A j \in escaped : j.kind \notin GetKinds
    /\ \A t \in AppThreads :
          fval[t].st = "exc" =>
              /\ tpc[t] \in {"get_activate", "get_wait"} => prom[t] = Exc
              /\ tpc[t] = "idle" => got[t] = Exc
    /\ \A i \in 1..Len(done) : done[i].kind = "getthrow" => (alive <=> escaped = {})

\* C5 witness: the caller got the error and the Loop ran a later job.
C5_Witness ==
    \E i \in 1..Len(done) :
        /\ done[i].kind = "getthrow" /\ got[done[i].by] = Exc
        /\ i < Len(done) /\ alive

\* C6: when the f of a call_get runs, every job submitted before it has run
\* to completion, and the value call_get returns counts each of them.
C6_SoonThenGet ==
    /\ (wpc = "job" /\ cur.kind \in GetKinds) => \A n \in 1..(cur.id - 1) : n \in Ids(done)
    /\ \A t \in AppThreads :
          got[t].st = "val" =>
              LET g == LastGet(t)
              IN /\ g > 0
                 /\ \A n \in 1..(done[g].id - 1) : \E k \in 1..(g - 1) : done[k].id = n
                 /\ got[t].v = Cardinality({k \in 1..(g - 1) : done[k].kind \in IncKinds})

\* C6 witness: one thread submitted two jobs and then call_get, which read 2.
C6_Witness ==
    \E t \in AppThreads :
        /\ Len(done) = 3 /\ \A i \in 1..3 : done[i].by = t
        /\ done[1].kind = "inc" /\ done[2].kind = "inc" /\ done[3].kind = "get"
        /\ got[t] = Val(2) /\ tpc[t] = "idle"

\* C7: a job that raises an error does not kill the Loop: no exception leaves
\* process_job_queue and the worker keeps running.
C7_JobErrorAbsorbed == escaped = {} /\ alive

C9_NoFireAfterStop == [][(wpc # "tick" /\ wpc' = "tick") => last_ok # "stop"]_vars

\* C10: a Ticker made by call_every with start_immediately=true is running
\* when call_every returns (and its timer is armed); one made with
\* start_immediately=false is stopped until a start() returns true.
C10_StartImmediately ==
    (tk.made /\ tret.op = "none") =>
        IF si THEN tk.is_running /\ tk.pending ELSE ~tk.is_running /\ ~tk.pending

\* C11: an exception that leaves a periodic Ticker's callback is caught and
\* the Ticker stays armed: when such a callback ends, is_running() is what it
\* was and a running Ticker's timer is pending again, so that the callback is
\* invoked at the next interval.
C11_ArmedAfterThrow ==
    [][(wpc = "tick" /\ tbody = "throw" /\ wpc' = "poll")
          => (tk'.is_running = tk.is_running /\ (tk.is_running => tk'.pending))]_vars

\* C13: the f of a weak-bound call_every is never invoked at a fire that
\* comes after the owner was dropped; at most one fire comes after the drop,
\* and when that fire's callback has ended the Ticker is cancelled and
\* released.
C13_WeakOwner ==
    /\ ~late_f
    /\ drop_fires <= 1
    /\ (drop_fires = 1 /\ wpc # "wtick") => wk = NoTicker
    /\ (wk.made /\ owner # "none") => (wk.is_running /\ wk.pending /\ wk.f)

\* C13 witness: f ran twice, the owner was dropped, one fire observed the drop
\* and the Ticker is gone.
C13_Witness ==
    wruns = 2 /\ owner = "dropped" /\ drop_fires = 1 /\ wk = NoTicker /\ wpc = "poll"

C20_NoGetAfterStop ==
    wpc = "exited" =>
        \A i \in 1..Len(job_queue) :
            job_queue[i].kind \in GetKinds => job_queue[i].id < exit_id

\* C12: with fixed_interval=true a fire leaves the timer disarmed while the
\* callback runs and the return of the callback arms it again; with
\* fixed_interval=false the timer stays armed on its cadence while the
\* callback runs, whatever the callback takes.
C12_FixedInterval ==
    [][/\ (wpc # "tick" /\ wpc' = "tick") => (tk'.pending <=> ~fi)
       /\ (wpc = "tick" /\ tbody = "plain" /\ wpc' = "poll" /\ fi /\ tk.is_running)
              => tk'.pending]_vars

\* the Ticker that a live Network made, if it made one
OwnTicker(m) == net[m].alive /\ ntk[m].made /\ ntk[m].ser = net[m].ser

\* C15: the stop_tickers of ~Network clears the callback of every Ticker made
\* through the Network being destroyed and stops it, and leaves every Ticker
\* made through another Network, and the Loop's own Ticker, as it was:
\* callback, running state and timer.
C15_OnlyOwnTickers ==
    [][\A t \in AppThreads :
          (tpc[t] = "net_tickers" /\ tpc'[t] # "net_tickers")
              => /\ \A m \in NetSlots :
                      ntk[m].made =>
                          IF ntk[m].ser = net[dt[t].n].ser
                          THEN ~ntk'[m].f /\ ~ntk'[m].is_running
                          ELSE ntk'[m] = ntk[m]
                 /\ tk' = tk]_vars

\* C16: no two live Networks have the same caller id, and no live Network has
\* the Loop's caller id.
C16_DistinctIds ==
    /\ \A n \in NetSlots, m \in NetSlots :
          (n # m /\ net[n].alive /\ net[m].alive) => net[n].id # net[m].id
    /\ \A n \in NetSlots : net[n].alive => net[n].id # loop_id

\* C17: ~Network asks the worker to stop exactly if its use_count is 1; the
\* worker is asked to stop, or has left the reactor, only when at most one
\* holder is left; and a ~Network that leaves the worker running leaves the
\* Tickers of the holders that remain (the other live Networks, and the
\* application that holds the Loop) as they were.
C17_LastHolderStops ==
    [][/\ (event_break \/ event_gotterm \/ wpc = "exited") => UseCount <= 1
       /\ \A t \in AppThreads :
            /\ (tpc[t] = "net_stop" /\ tpc'[t] # "net_stop")
                  => ((event_break' \/ event_gotterm') <=> UseCount = 1)
            /\ (tpc[t] = "net_tickers" /\ tpc'[t] = "idle")
                  => /\ ~event_break' /\ ~event_gotterm' /\ wpc' # "exited"
                     /\ \A m \in NetSlots \ {dt[t].n} : OwnTicker(m) => ntk'[m] = ntk[m]
                     /\ app_holds => tk' = tk]_vars

C21_ChunkingIrrelevant ==
    /\ Outcome(bt) = Outcome(receive(BtInit, rx))
    /\ Outcome(bt) = Outcome(receive_bytes(BtInit, rx))

\* a decimal: digits and nothing else
ValidDecimal(q) == q # << >> /\ \A i \in 1..Len(q) : q[i] \in Digits
\* the first length prefix of the stream is one to reject: more than
\* MAX_REQ_LEN_ENCODED bytes and no ':' yet, or, before the ':', no decimal, 0,
\* or more than MAX_REQ_LEN
FirstPrefixBad(q) ==
    LET pos == find_first_of(q)
    IN \/ Len(q) > MAX_REQ_LEN_ENCODED /\ (pos = 0 \/ pos > MAX_REQ_LEN_ENCODED + 1)
       \/ /\ pos # 0
          /\ \/ ~ValidDecimal(Take(q, pos - 1))
             \/ DecVal(Take(q, pos - 1)) = 0
             \/ DecVal(Take(q, pos - 1)) > MAX_REQ_LEN

\* C22: once the bytes received begin with a length prefix to reject, the
\* stream is closed and nothing has been delivered.
C22_BadPrefixRejected ==
    FirstPrefixBad(rx) => (bt.closing /\ bt.delivered = << >>)

\* the ids of the requests of side s that are in flight
InFlight(s) == {bts[s].sent_reqs[i].req_id : i \in 1..Len(bts[s].sent_reqs)}
\* the step is handle_input of side s with the message first in line
Handles(s) == wire[s] # << >> /\ wire'[s] = Tail(wire[s]) /\ ~bts[s].closing
\* the list is a Response or an Error that the message constructor takes
IsReply(raw) == ~message(raw, FALSE, "q").throws /\ raw[1].s \in {"R", "E"}
\* the callbacks invoked so far that complete a request
Completions == SelectSeq(blog, LAMBDA e : e.kind \in {"reply", "timeout"})

\* C23: handle_input with a Response or Error of request id r, when a request
\* with id r is in flight, invokes the completion callback of that request with
\* the message and removes that entry and no other; when none is, it invokes
\* no callback and no handler and leaves the in-flight list as it is.
C23_ResponseMatchesById ==
    [][\A s \in Sides :
         (Handles(s) /\ IsReply(Head(wire[s]))) =>
             LET raw == Head(wire[s])
                 r == raw[2].i
             IN IF r \in InFlight(s)
                THEN /\ bts'[s].sent_reqs =
                            SelectSeq(bts[s].sent_reqs, LAMBDA q : q.req_id # r)
                     /\ blog' = Append(blog, Event(s, "reply", r, message(raw, FALSE, "q")))
                ELSE /\ bts'[s].sent_reqs = bts[s].sent_reqs
                     /\ blog' = blog]_vars

\* C24: no request is completed twice, and a Response or Error for a request
\* id that a timeout has completed invokes no completion callback.
C24_NoMatchAfterTimeout ==
    [][/\ \A i, j \in 1..Len(Completions') :
             (Completions'[i].side = Completions'[j].side
                 /\ Completions'[i].entry = Completions'[j].entry) => i = j
       /\ \A s \in Sides :
             (/\ Handles(s) /\ IsReply(Head(wire[s]))
              /\ \E i \in 1..Len(blog) :
                    /\ blog[i].side = s /\ blog[i].kind = "timeout"
                    /\ blog[i].entry = Head(wire[s])[2].i)
                 => Completions' = Completions]_vars

\* the step is a timeout sweep of side s
Sweeps(s) == bts'[s].sweeps # bts[s].sweeps
\* the callbacks that side s has had invoked for a timeout
Timeouts(s) == SelectSeq(blog, LAMBDA e : e.side = s /\ e.kind = "timeout")

\* C25: a timeout sweep completes every in-flight request whose deadline has
\* passed with its timeout, whatever else is in flight, and leaves the stream
\* open.
C25_SweepCompletesExpired ==
    [][\A s \in Sides :
         Sweeps(s) =>
             /\ \A i \in 1..Len(bts[s].sent_reqs) :
                   is_expired(bts[s].sent_reqs[i], now) =>
                       /\ bts[s].sent_reqs[i].req_id \notin InFlight(s)'
                       /\ \E k \in 1..Len(Timeouts(s)') :
                             Timeouts(s)'[k].entry = bts[s].sent_reqs[i].req_id
             /\ bts'[s].closing = bts[s].closing]_vars

C27_CloseCompletesInFlight ==
    [][\A s \in Sides :
         (bts'[s].closing /\ ~bts[s].closing) =>
             /\ bts'[s].sent_reqs = << >>
             /\ \A r \in InFlight(s) :
                   Cardinality({k \in 1..Len(Completions') :
                                   /\ Completions'[k].side = s
                                   /\ Completions'[k].entry = r
                                   /\ Completions'[k].kind = "timeout"}) = 1
             /\ bts'[s].func_map = bts[s].func_map]_vars

\* the list is a Command that the message constructor takes
IsCommand(raw) == ~message(raw, FALSE, "q").throws /\ raw[1].s = "C"

\* C28: handle_input with a Command whose endpoint is registered invokes the
\* handler once with the message; with a Command whose endpoint is not
\* registered it invokes nothing, sends nothing and leaves the stream open;
\* either way the in-flight list is as it was.
C28_CommandDispatch ==
    [][\A s \in Sides :
         (Handles(s) /\ IsCommand(Head(wire[s]))) =>
             LET raw == Head(wire[s])
             IN /\ IF raw[3].s \in bts[s].func_map
                   THEN blog' = Append(blog, Event(s, "handler", -1, message(raw, FALSE, "q")))
                   ELSE /\ blog' = blog
                        /\ held' = held
                        /\ wire'[Peer(s)] = wire[Peer(s)]
                        /\ bts'[s].closing = bts[s].closing
                /\ bts'[s].sent_reqs = bts[s].sent_reqs]_vars

\* a handler has been invoked with a Command while a request is in flight and
\* one of the endpoint names is not registered
C28_Witness ==
    /\ \E k \in 1..Len(blog) : blog[k].side = "a" /\ blog[k].kind = "handler"
    /\ bts["a"].sent_reqs # << >>
    /\ bts["a"].func_map # Eps

\* C29: the response that a handler sends with respond(b') carries the request
\* id of the command it answers and the body b'; when it arrives, the request
\* with that id, and no other, is completed with a message that carries that
\* id and the body b'; no request is completed twice.
C29_RoundTrip ==
    [][/\ \A s \in Sides : \A m \in held[s] :
             (held'[s] = held[s] \ {m}) =>
                 \E x \in Raws \cup {encode_response(r, b, e) :
                                      r \in 0..MaxReqs, b \in Bodies, e \in BOOLEAN} :
                     /\ wire'[Peer(s)] = Append(wire[Peer(s)], x)
                     /\ IsReply(x)
                     /\ message(x, FALSE, "q").req_id = m.req_id
                     /\ Seen(message(x, FALSE, "q")).body \in Bodies
       /\ \A s \in Sides :
             (Handles(s) /\ ~IsCommand(Head(wire[s]))) =>
                 LET raw == Head(wire[s])
                     msg == message(raw, FALSE, "q")
                 IN /\ IsReply(raw)
                    /\ msg.req_id \in InFlight(s)
                    /\ InFlight(s)' = InFlight(s) \ {msg.req_id}
                    /\ blog' = Append(blog, Event(s, "reply", msg.req_id, msg))
                    /\ Seen(msg).body \in Bodies
       /\ \A i, j \in 1..Len(Completions') :
             (Completions'[i].side = Completions'[j].side
                 /\ Completions'[i].entry = Completions'[j].entry) => i = j]_vars

\* both requests have been answered, with different bodies, and completed
C29_Witness ==
    /\ Len(Completions) = MaxReqs
    /\ \E i, j \in 1..Len(Completions) :
          /\ Completions[i].msg.body # Completions[j].msg.body
          /\ Completions[i].entry = Completions[i].msg.req_id
    /\ bts["a"].sent_reqs = << >>

\* the views of the message in slot o are empty or lie in its own buffer
OwnViews(m, o) ==
    \A v \in {m.req_type, m.ep, m.req_body} : v.len = 0 \/ v.buf = o

RECURSIVE Frames(_)
Frames(q) ==
    LET pos == find_first_of(q)
        n == DecVal(Take(q, LeadDigits(Take(q, pos - 1))))
    IN IF pos = 0 \/ LeadDigits(Take(q, pos - 1)) = 0 \/ n = 0 \/ n > MAX_REQ_LEN
          \/ Len(q) - pos < n
       THEN << >>
       ELSE <<SubSeq(q, pos + 1, pos + n)>> \o Frames(Drop(q, pos + n))
\* how many bytes of the stream its framed messages and their prefixes take
RECURSIVE FramedLen(_)
FramedLen(q) ==
    IF Frames(q) = << >> THEN 0
    ELSE LET used == find_first_of(q) + Len(Frames(q)[1])
         IN used + FramedLen(Drop(q, used))

\* C31: the messages handed to handle_input are the framed messages of the
\* bytes received, each once, in order and with exactly the bytes that follow
\* its length prefix: all of them while the stream is open, the first of them
\* once it is closed; and what follows the last one handed over is held as
\* the start of the next length prefix, or as that prefix's message so far.
C31_ExactFraming ==
    /\ Len(bt.delivered) <= Len(Frames(rx))
    /\ bt.delivered = Take(Frames(rx), Len(bt.delivered))
    /\ ~bt.closing =>
          /\ bt.delivered = Frames(rx)
          /\ LET rest == Drop(rx, FramedLen(rx))
             IN IF bt.current_len = 0
                THEN bt.size_buf = rest /\ bt.buf = << >>
                ELSE /\ find_first_of(rest) # 0
                     /\ bt.buf = Drop(rest, find_first_of(rest))
                     /\ Len(bt.buf) < bt.current_len

\* two messages have been handed over that, with their length prefixes, are
\* all the bytes there can be
C31_Witness ==
    /\ Len(bt.delivered) = 2
    /\ ~bt.closing
    /\ Len(bt.delivered[1]) + Len(bt.delivered[2]) = MaxStream - 4

\* C32: call(f) from an application thread runs nothing on that thread and
\* only puts f on the job queue; call(f) and call_get(f) from a job on the
\* Loop thread run f there and then, put nothing on the job queue, and
\* call_get hands back the value of f; the Loop thread never waits for a job
\* of its own.
C32_InlineOnLoopThread ==
    [][/\ \A t \in AppThreads :
             (tpc[t] = "idle" /\ tpc'[t] = "activate") =>
                 /\ counter' = counter /\ cb_threads' = cb_threads
                 /\ Len(job_queue') = Len(job_queue) + 1
                 /\ job_queue'[Len(job_queue')].by = t
       /\ (wpc = "job" /\ cur.kind = "inc" /\ cur' # cur) =>
                 /\ counter' = counter + 1
                 /\ job_queue' = job_queue
                 /\ wpc' = "drain"
       /\ (wpc = "job" /\ cur.kind = "nestget" /\ wpc' # wpc) =>
                 /\ fruns'[cur.by] = fruns[cur.by] + 1
                 /\ got'[cur.by] = Val(counter)
                 /\ job_queue' = job_queue
                 /\ wpc' = "drain"
       /\ wpc' # "fut_get"]_vars

\* a job on the Loop thread has called call_get and has its value, after a
\* call(f) from an application thread has been run by the worker
C32_Witness ==
    /\ \E i \in 1..Len(done) : done[i].kind = "nestget" /\ got[done[i].by] = Val(1)
    /\ \E i \in 1..Len(done) : done[i].kind = "inc"
    /\ cb_threads = {Worker}

\* the Tickers that carry the caller id of Network n
TickersOf(n) == {h \in NetSlots : ntk[h].made /\ ntk[h].tag = net[n].id}

\* C33: a thread in ~Network gets to the stop of the Loop thread only with
\* shutdown_immediate set or after the job that closes the connections has
\* run on the Loop thread and the thread has waited for it; it stops the Loop
\* thread if and only if the Network is the last holder of the Loop; and only
\* after that, and after the Loop thread has ended if it was stopped, does it
\* cancel the Tickers of the Network's id, which none of the earlier stages
\* touches.
C33_DestructionOrder ==
    [][\A t \in AppThreads :
         /\ (tpc'[t] = "net_stop" /\ tpc[t] # "net_stop") =>
               \/ dt'[t].imm
               \/ /\ tpc[t] = "close_wait"
                  /\ \E i \in 1..Len(done) : done[i].kind = "close" /\ done[i].by = t
                  /\ cb_threads \subseteq {Worker}
         /\ (tpc[t] = "net_stop" /\ tpc'[t] # "net_stop") =>
               /\ IF UseCount = 1
                  THEN (event_break' \/ event_gotterm') /\ tpc'[t] = "net_join"
                  ELSE /\ event_break' = event_break /\ event_gotterm' = event_gotterm
                       /\ tpc'[t] = "net_tickers"
               /\ ntk' = ntk
         /\ (tpc[t] \in {"idle", "close_activate", "close_wait", "net_join"}
                /\ tpc'[t] # tpc[t] /\ dt'[t].n # "none") =>
               \A h \in NetSlots : ntk'[h].tag = net[dt'[t].n].id => ntk'[h] = ntk[h]
         /\ (tpc[t] = "net_tickers" /\ tpc'[t] # "net_tickers") =>
               /\ \A h \in TickersOf(dt[t].n) : ~ntk'[h].is_running /\ ~ntk'[h].f
               /\ ~net'[dt[t].n].alive
         /\ (tpc'[t] = "net_tickers" /\ tpc[t] # "net_tickers") =>
               \/ tpc[t] = "net_stop"
               \/ tpc[t] = "net_join" /\ wpc = "exited"]_vars

\* a Network that is not the last holder has been destroyed gracefully, its
\* running Ticker cancelled, while the Loop thread runs on
C33_Witness ==
    /\ \E i \in 1..Len(done) : done[i].kind = "close"
    /\ \E h \in NetSlots : ntk[h].made /\ ~ntk[h].is_running /\ ~ntk[h].f
    /\ \E n \in NetSlots : ~net[n].alive /\ n = "n1"
    /\ wpc # "exited" /\ ~event_break /\ ~event_gotterm

\* the Loop thread is running: it has been started and has not ended
LoopThreadRuns == alive /\ wpc # "exited"

\* C34: while the Loop thread runs, no application thread takes a step that
\* writes the Ticker registry or a Ticker's callback and armed state: not
\* the stop_tickers of a Network destructor, and not the make_handler and
\* init_event of a call_every.
C34_LoopConfined ==
    [][/\ \A t \in AppThreads :
             (tpc[t] = "net_tickers" /\ tpc'[t] # "net_tickers" /\ ~in_event_loop(t)) =>
                 ~LoopThreadRuns
       /\ \A n \in NetSlots :
             (ntk'[n].made /\ ntk'[n].ser # ntk[n].ser
                 /\ \A t \in AppThreads : ~in_event_loop(t)) =>
                 ~LoopThreadRuns]_vars

\* C35: a Ticker is destroyed only by a job that the Loop thread is running,
\* and not while its callback runs; when its last handle has been dropped it
\* is destroyed: once the Loop thread has ended after a graceful stop, no job
\* that was to destroy it is left unrun; and a destroyed Ticker has no timer and
\* no callback.
C35_TeardownOnLoopThread ==
    [][/\ (tk.made /\ ~tk'.made) =>
             /\ wpc = "job" /\ cur.kind \in {"del", "reset"}
             /\ cb_threads \subseteq {Worker}
       /\ (wpc' = "exited" /\ at_stop'.req = "graceful"
              /\ tpc' = [t \in AppThreads |-> "idle"]) => DelPending' = {}
       /\ ~tk'.made => (~tk'.pending /\ ~tk'.f /\ wpc' # "tick")]_vars

\* C36: the Loop is not used after it has been destroyed: no Ticker handle is
\* dropped (its deleter submits to the Loop), no job is submitted and no
\* Ticker of a Network is started once ~Loop has completed.
C36_LoopOutlivesUsers ==
    [][loop_dead =>
          /\ \A n \in NetSlots : ntk[n].held => ntk'[n].held
          /\ next_id' = next_id
          /\ \A n \in NetSlots : ntk'[n].pending => ntk[n].pending]_vars

\* C37: a timeout sweep made while no request is in flight touches nothing:
\* no callback is invoked, the list stays empty and the program goes on.
C37_SweepOfEmptyList ==
    [][(Sweeps("a") /\ bts["a"].sent_reqs = << >>) =>
          /\ alive'
          /\ blog' = blog
          /\ bts'["a"].sent_reqs = << >>]_vars

\* C38: a start() that returns true takes effect on a Ticker that is stopped,
\* and a stop() that returns true on one that is running, so that of two
\* racing calls one returns true; and whenever no call and no callback is
\* under way, is_running() is true exactly if the timer is armed.
C38_StartStopAtomic ==
    [][/\ \A t \in AppThreads :
            /\ (tpc[t] = "start_set" /\ tpc'[t] = "idle") => ~tk.is_running
            /\ (tpc[t] = "stop_set" /\ tpc'[t] = "idle") => tk.is_running
       /\ (tpc' = [t \in AppThreads |-> "idle"] /\ wpc' = "poll")
              => (tk'.is_running <=> tk'.pending)]_vars

\* C39: once the job of a register_command("ep", f) made off the Loop thread
\* has run, the handler table holds f under "ep" and under no other name, and
\* a command naming "ep" that is handled from then on is given to the handler.
C39_OffThreadRegister ==
    [][(\E i \in 1..Len(done') : done'[i].kind = "reg") =>
          /\ alive'
          /\ bts'["a"].func_map = {"ep"}
          /\ (Handles("a") /\ IsCommand(Head(wire["a"])) /\ Head(wire["a"])[3].s = "ep"
                /\ "ep" \in bts["a"].func_map)
               => blog' = Append(blog, Event("a", "handler", -1,
                                             message(Head(wire["a"]), FALSE, "q")))]_vars

\* C40: the range a/m has as its base a with the low 32-m bits cleared,
\* max_ip() is a with those bits set, and contains(x) is true exactly for the
\* x from the base to max_ip().
C40_RangeArithmetic ==
    rng.made =>
        LET k == AddrBits - rng.mask
            base == ClearLow(rng.a, k)
            top == SetLow(rng.a, k)
        IN /\ rng.ip = base
           /\ rng.op = "max_ip" => rng.max = top
           /\ rng.op = "contains" => (rng.res <=> (less_eq(base, rng.x) /\ less_eq(rng.x, top)))

====
